---- MODULE Spec2Model ----
(***************************************************************************)
(* Perpetual-futures exchange simulator: order book and matching           *)
(* (src/src/engine/order_book.py), position accounting                     *)
(* (src/src/engine/position_manager.py) and the order placement facade     *)
(* (src/src/engine/matching_engine.py).                                    *)
(*                                                                         *)
(* Orders are numbered 1, 2, ... in creation order; the number stands for  *)
(* the order's uuid and for its creation time.  Order prices and           *)
(* quantities are whole numbers.  Money kept by the position manager       *)
(* (collateral, entry price, PNL) is a Decimal: it is held as a whole      *)
(* number of 1/Scale units, and a Decimal quotient is rounded half-even to *)
(* that unit, as the Decimal context rounds it to its precision.           *)
(***************************************************************************)
EXTENDS Integers, Sequences, FiniteSets, TLC

\* ------------------------------------------------------------------ bounds
MaxOrders == 3
MaxTrades == 3
InitialCollateral == 2
MaxPlaced == 2
MaxFills == 1
MaxTime == 8
MaxLiquidations == 2

Scale == 1000

Prices == {1, 2}
Quantities == {1, 2}
Leverages == {1, 2}
Users == {"user1", "user2"}
Sides == {"buy", "sell"}
UserList == <<"user1", "user2">>
TimeSteps == {4}

VARIABLES
    orders,        \* every Order object created so far, by order number
    book_orders,   \* OrderBook.orders: the order numbers stored for lookup
    buy_levels,    \* OrderBook.buy_levels: price -> PriceLevel
    buy_prices,    \* OrderBook.buy_prices: the heap of (-price, price) entries
    sell_levels,   \* OrderBook.sell_levels
    sell_prices,   \* OrderBook.sell_prices: the heap of (price, price) entries
    best_bid,      \* OrderBook.best_bid: <<>> for None, <<p>> for a price
    best_ask,      \* OrderBook.best_ask
    trades,        \* every Trade returned by add_order so far, in order
    fills,         \* per trade: the two remaining quantities it was cut from
    users,         \* PositionManager.users: user id -> User
    opened,        \* per user: the round trip its position is on, since it opened
    applied,       \* the last trade handed to process_trade, and how many were
    last,          \* the last operation called and what it returned
    order_history, \* OrderMatchingEngine.order_history: the accepted order numbers
    trade_history, \* OrderMatchingEngine.trade_history: the trade records
    market_data,   \* the MarketData object the driver hands to every component
    pm_market_data,     \* PositionManager.market_data is set (to that object)
    current_time,       \* the driver's clock, in simulated hours
    funding_history,    \* FundingRateManager.funding_history
    last_funding_time,  \* FundingRateManager.last_funding_time: <<>> for None
    liquidation_history, \* LiquidationEngine.liquidation_history
    loop,          \* TradingSimulator.run_simulation: where the loop body is
    risk_analysis  \* what _analyze_position_liquidation_risk returned last

bookVars == <<orders, book_orders, buy_levels, buy_prices, sell_levels,
              sell_prices, best_bid, best_ask, trades, fills>>
pmVars == <<users, opened, applied>>
engineVars == <<order_history, trade_history>>
marketVars == <<market_data, pm_market_data, current_time>>
fundingVars == <<funding_history, last_funding_time>>
riskVars == <<marketVars, fundingVars, liquidation_history>>
driverVars == <<loop, risk_analysis>>
vars == <<bookVars, pmVars, last, engineVars, riskVars, driverVars>>

None == <<>>
Some(x) == <<x>>

\* --------------------------------------------------------- generic helpers
Range(s) == {s[i] : i \in 1..Len(s)}

Min(a, b) == IF a <= b THEN a ELSE b

Max(a, b) == IF a >= b THEN a ELSE b

RECURSIVE SumSeq(_)
SumSeq(s) == IF s = <<>> THEN 0 ELSE Head(s) + SumSeq(Tail(s))

RemoveFirst(s, x) ==
    LET i == CHOOSE k \in 1..Len(s) : s[k] = x /\ \A j \in 1..(k - 1) : s[j] # x
    IN  SubSeq(s, 1, i - 1) \o SubSeq(s, i + 1, Len(s))

RECURSIVE SumOver(_, _)
SumOver(f, S) ==
    IF S = {} THEN 0
    ELSE LET x == CHOOSE y \in S : TRUE IN f[x] + SumOver(f, S \ {x})

\* ------------------------------------------------------------------- Order
Order(user_id, side, quantity, price, leverage) ==
    [user_id |-> user_id, side |-> side, quantity |-> quantity, price |-> price,
     leverage |-> leverage, filled_quantity |-> 0, status |-> "open"]

remaining_quantity(o) == o.quantity - o.filled_quantity

is_filled(o) == o.filled_quantity >= o.quantity

is_partially_filled(o) == o.filled_quantity > 0 /\ o.filled_quantity < o.quantity

FillStatusPartial(o) ==
    IF is_partially_filled(o) THEN "partially_filled" ELSE o.status

\* the "update order status" blocks of the matching loops
FillStatus(o) ==
    IF is_filled(o) THEN "filled"
    ELSE IF is_partially_filled(o) THEN "partially_filled"
    ELSE o.status

\* -------------------------------------------------------------- PriceLevel
PriceLevel(price) == [price |-> price, orders |-> <<>>, total_quantity |-> 0]

PriceLevel_add_order(level, id, ords) ==
    [level EXCEPT !.orders = Append(@, id),
                  !.total_quantity = @ + remaining_quantity(ords[id])]

PriceLevel_keep_order(level, id, ords) == level

PriceLevel_remove_order(level, id, ords) ==
    IF id \in Range(level.orders)
    THEN [level EXCEPT !.orders = RemoveFirst(@, id),
                       !.total_quantity = @ - remaining_quantity(ords[id])]
    ELSE level

PriceLevel_update_order(level, ords) ==
    [level EXCEPT !.total_quantity =
        SumSeq([i \in 1..Len(level.orders) |-> remaining_quantity(ords[level.orders[i]])])]

PriceLevel_is_empty(level) == Len(level.orders) = 0

\* ------------------------------------------------------ price-level tables
LevelPut(levels, p, level) ==
    [x \in DOMAIN levels \cup {p} |-> IF x = p THEN level ELSE levels[x]]

LevelDel(levels, p) == [x \in DOMAIN levels \ {p} |-> levels[x]]

\* ------------------------------------------------------------------- heapq
\* A heap holds 2-tuples; no two entries of a heap share their first
\* component, so the heap is held as the set of its entries and heap[0] is
\* the entry that is least in Python's tuple order.
TupleLeq(t, u) == t[1] < u[1] \/ (t[1] = u[1] /\ t[2] <= u[2])

HeapTop(heap) == CHOOSE t \in heap : \A u \in heap : TupleLeq(t, u)

heappush(heap, t) == heap \cup {t}

heappop(heap) == heap \ {HeapTop(heap)}

\* ------------------------------------------------------ matching decisions
BackOrder(queue) == queue[Len(queue)]

\* the resting order a match takes from the best level: orders[0]
FrontOrder(queue) == queue[1]

IncomingQuantity(incoming_remaining, resting_remaining) == incoming_remaining

\* trade_quantity = min(incoming remaining, resting remaining)
TradeQuantity(incoming_remaining, resting_remaining) ==
    Min(incoming_remaining, resting_remaining)

TakerPrice(best_price, incoming_price) == incoming_price

\* Trade(price=best price of the resting side)
TradePrice(best_price, incoming_price) == best_price

Trade(buy_order_id, sell_order_id, quantity, price) ==
    [buy_order_id |-> buy_order_id, sell_order_id |-> sell_order_id,
     quantity |-> quantity, price |-> price]

\* --------------------------------------------------------------- OrderBook
\* The order book as one record, so that a handler is a function of it.
Book ==
    [orders |-> orders, book_orders |-> book_orders,
     buy_levels |-> buy_levels, buy_prices |-> buy_prices,
     sell_levels |-> sell_levels, sell_prices |-> sell_prices,
     best_bid |-> best_bid, best_ask |-> best_ask,
     trades |-> trades, fills |-> fills]

SetBookInit ==
    /\ orders = <<>>
    /\ book_orders = {}
    /\ buy_levels = <<>>
    /\ buy_prices = {}
    /\ sell_levels = <<>>
    /\ sell_prices = {}
    /\ best_bid = None
    /\ best_ask = None
    /\ trades = <<>>
    /\ fills = <<>>

SetBook(b) ==
    /\ orders' = b.orders
    /\ book_orders' = b.book_orders
    /\ buy_levels' = b.buy_levels
    /\ buy_prices' = b.buy_prices
    /\ sell_levels' = b.sell_levels
    /\ sell_prices' = b.sell_prices
    /\ best_bid' = b.best_bid
    /\ best_ask' = b.best_ask
    /\ trades' = b.trades
    /\ fills' = b.fills

RECURSIVE _match_buy_order(_, _)
_match_buy_order(b, id) ==
    LET buy_order == b.orders[id] IN
    IF ~(remaining_quantity(buy_order) > 0
         /\ b.sell_prices # {}
         /\ HeapTop(b.sell_prices)[2] <= buy_order.price)
    THEN b
    ELSE
    LET best_ask_price == HeapTop(b.sell_prices)[2] IN
    IF best_ask_price \notin DOMAIN b.sell_levels
    THEN b   \* KeyError; no state with prices > 0 reaches it
    ELSE
    LET sell_level == b.sell_levels[best_ask_price] IN
    IF PriceLevel_is_empty(sell_level)
    THEN _match_buy_order([b EXCEPT !.sell_prices = heappop(@)], id)
    ELSE
    LET sid == FrontOrder(sell_level.orders)
        sell_order == b.orders[sid]
        trade_quantity == TradeQuantity(remaining_quantity(buy_order),
                                        remaining_quantity(sell_order))
        trade == Trade(id, sid, trade_quantity,
                       TradePrice(best_ask_price, buy_order.price))
        fill == [incoming |-> id, resting |-> sid,
                 incoming_remaining |-> remaining_quantity(buy_order),
                 resting_remaining |-> remaining_quantity(sell_order)]
        buy1 == [buy_order EXCEPT !.filled_quantity = @ + trade_quantity]
        sell1 == [sell_order EXCEPT !.filled_quantity = @ + trade_quantity]
        buy2 == [buy1 EXCEPT !.status = FillStatus(buy1)]
        sell2 == [sell1 EXCEPT !.status = FillStatus(sell1)]
        ords == [b.orders EXCEPT ![id] = buy2, ![sid] = sell2]
        removed == PriceLevel_remove_order(sell_level, sid, ords)
        b1 == [b EXCEPT !.orders = ords,
                        !.trades = Append(@, trade),
                        !.fills = Append(@, fill)]
        b2 == IF is_filled(sell1)
              THEN IF PriceLevel_is_empty(removed)
                   THEN [b1 EXCEPT !.sell_prices = heappop(@),
                                   !.sell_levels = LevelDel(@, best_ask_price)]
                   ELSE [b1 EXCEPT !.sell_levels[best_ask_price] = removed]
              ELSE IF is_partially_filled(sell1)
                   THEN [b1 EXCEPT !.sell_levels[best_ask_price] =
                                        PriceLevel_update_order(sell_level, ords)]
                   ELSE b1
    IN  _match_buy_order(b2, id)

RECURSIVE _match_sell_order(_, _)
_match_sell_order(b, id) ==
    LET sell_order == b.orders[id] IN
    IF ~(remaining_quantity(sell_order) > 0
         /\ b.buy_prices # {}
         /\ HeapTop(b.buy_prices)[2] >= sell_order.price)
    THEN b
    ELSE
    LET best_bid_price == HeapTop(b.buy_prices)[2] IN
    IF best_bid_price \notin DOMAIN b.buy_levels
    THEN b   \* KeyError; no state with prices > 0 reaches it
    ELSE
    LET buy_level == b.buy_levels[best_bid_price] IN
    IF PriceLevel_is_empty(buy_level)
    THEN _match_sell_order([b EXCEPT !.buy_prices = heappop(@)], id)
    ELSE
    LET bid == FrontOrder(buy_level.orders)
        buy_order == b.orders[bid]
        trade_quantity == TradeQuantity(remaining_quantity(sell_order),
                                        remaining_quantity(buy_order))
        trade == Trade(bid, id, trade_quantity,
                       TradePrice(best_bid_price, sell_order.price))
        fill == [incoming |-> id, resting |-> bid,
                 incoming_remaining |-> remaining_quantity(sell_order),
                 resting_remaining |-> remaining_quantity(buy_order)]
        sell1 == [sell_order EXCEPT !.filled_quantity = @ + trade_quantity]
        buy1 == [buy_order EXCEPT !.filled_quantity = @ + trade_quantity]
        sell2 == [sell1 EXCEPT !.status = FillStatus(sell1)]
        buy2 == [buy1 EXCEPT !.status = FillStatus(buy1)]
        ords == [b.orders EXCEPT ![id] = sell2, ![bid] = buy2]
        removed == PriceLevel_remove_order(buy_level, bid, ords)
        b1 == [b EXCEPT !.orders = ords,
                        !.trades = Append(@, trade),
                        !.fills = Append(@, fill)]
        b2 == IF is_filled(buy1)
              THEN IF PriceLevel_is_empty(removed)
                   THEN [b1 EXCEPT !.buy_prices = heappop(@),
                                   !.buy_levels = LevelDel(@, best_bid_price)]
                   ELSE [b1 EXCEPT !.buy_levels[best_bid_price] = removed]
              ELSE IF is_partially_filled(buy1)
                   THEN [b1 EXCEPT !.buy_levels[best_bid_price] =
                                        PriceLevel_update_order(buy_level, ords)]
                   ELSE b1
    IN  _match_sell_order(b2, id)

_add_buy_order(b, id) ==
    LET price == b.orders[id].price
        b1 == IF price \notin DOMAIN b.buy_levels
              THEN [b EXCEPT !.buy_levels = LevelPut(@, price, PriceLevel(price)),
                             !.buy_prices = heappush(@, <<-price, price>>)]
              ELSE b
    IN  [b1 EXCEPT !.buy_levels[price] = PriceLevel_add_order(@, id, b1.orders)]

_add_sell_order(b, id) ==
    LET price == b.orders[id].price
        b1 == IF price \notin DOMAIN b.sell_levels
              THEN [b EXCEPT !.sell_levels = LevelPut(@, price, PriceLevel(price)),
                             !.sell_prices = heappush(@, <<price, price>>)]
              ELSE b
    IN  [b1 EXCEPT !.sell_levels[price] = PriceLevel_add_order(@, id, b1.orders)]

_update_best_prices(b) ==
    [b EXCEPT !.best_bid = IF b.buy_prices # {}
                           THEN Some(HeapTop(b.buy_prices)[2]) ELSE None,
              !.best_ask = IF b.sell_prices # {}
                           THEN Some(HeapTop(b.sell_prices)[2]) ELSE None]

NoneFilled(order) == remaining_quantity(order) >= 0

\* if order.remaining_quantity > Decimal('0')
SomeRemaining(order) == remaining_quantity(order) > 0

\* add_order of a newly created order; the order takes the next number
add_order(b, order) ==
    LET id == Len(b.orders) + 1
        b0 == [b EXCEPT !.orders = Append(@, order),
                        !.book_orders = @ \cup {id}]
        b1 == IF order.side = "buy"
              THEN LET m == _match_buy_order(b0, id)
                   IN  IF SomeRemaining(m.orders[id])
                       THEN _add_buy_order(m, id) ELSE m
              ELSE LET m == _match_sell_order(b0, id)
                   IN  IF SomeRemaining(m.orders[id])
                       THEN _add_sell_order(m, id) ELSE m
    IN  _update_best_prices(b1)

\* the rebuilt heap of a cancel that emptied a level
RebuiltBuyHeap(heap, price) == {<<t[1], t[1]>> : t \in {u \in heap : u[1] # -price}}

RebuiltSellHeap(heap, price) == {<<t[1], t[1]>> : t \in {u \in heap : u[1] # price}}

\* OrderBook.cancel_order, for an order it accepts (cancel_ok)
cancel_ok(b, id) ==
    /\ id \in b.book_orders
    /\ b.orders[id].status \notin {"filled", "cancelled"}

cancel_order(b, id) ==
    IF ~cancel_ok(b, id) THEN b
    ELSE
    LET order == [b.orders[id] EXCEPT !.status = "cancelled"]
        ords == [b.orders EXCEPT ![id] = order]
        price == order.price
        b0 == [b EXCEPT !.orders = ords]
        b1 == IF order.side = "buy"
              THEN IF price \in DOMAIN b0.buy_levels
                   THEN LET removed == PriceLevel_remove_order(b0.buy_levels[price], id, ords)
                        IN  IF PriceLevel_is_empty(removed)
                            THEN [b0 EXCEPT !.buy_levels = LevelDel(@, price),
                                            !.buy_prices = RebuiltBuyHeap(@, price)]
                            ELSE [b0 EXCEPT !.buy_levels[price] = removed]
                   ELSE b0
              ELSE IF price \in DOMAIN b0.sell_levels
                   THEN LET removed == PriceLevel_remove_order(b0.sell_levels[price], id, ords)
                        IN  IF PriceLevel_is_empty(removed)
                            THEN [b0 EXCEPT !.sell_levels = LevelDel(@, price),
                                            !.sell_prices = RebuiltSellHeap(@, price)]
                            ELSE [b0 EXCEPT !.sell_levels[price] = removed]
                   ELSE b0
        b2 == [b1 EXCEPT !.book_orders = @ \ {id}]
    IN  _update_best_prices(b2)

\* ---------------------------------------------------------------- queries
\* order numbers resting in the queues of a side's levels
Resting(levels) == UNION {Range(levels[p].orders) : p \in DOMAIN levels}

\* ----------------------------------------------------------------- Decimal
\* a whole number as a Decimal
Dec(n) == n * Scale

\* a / b for a Decimal a and a whole number b > 0, rounded half-even
DecDiv(a, b) ==
    LET q == a \div b
        r == a % b
    IN  IF 2 * r < b THEN q
        ELSE IF 2 * r > b THEN q + 1
        ELSE IF q % 2 = 0 THEN q ELSE q + 1

\* the Decimal quotient of two whole numbers
DecRatio(a, b) == DecDiv(Dec(a), b)

\* the Decimal product of two Decimals
DecMul(a, b) == DecDiv(a * b, Scale)

\* float(d) of a Decimal d: the double nearest to it, no longer a Decimal
Float(d) == <<"float", d>>

\* --------------------------------------------------------- User, Position
User(collateral) ==
    [collateral |-> collateral, total_realized_pnl |-> 0, position |-> None]

Position(side, quantity, entry_price, leverage, collateral) ==
    [side |-> side, quantity |-> quantity, entry_price |-> entry_price,
     leverage |-> leverage, collateral |-> collateral,
     unrealized_pnl |-> 0, funding_paid |-> 0]

has_position(user) == user.position # None

get_position(user) == user.position[1]

\* --------------------------------------------------------- PositionManager
\* The position manager as one record: users, and the round-trip history.
PM == [users |-> users, opened |-> opened]

_position_value_as_collateral(quantity, price, leverage) == quantity * price

_calculate_required_collateral(quantity, price, leverage) ==
    DecDiv(quantity * price, leverage)

\* the amount _increase_position takes from the user's free collateral
IncreaseDeducted(additional_collateral) == 0

MeanEntryPrice(old_value, new_value, total_quantity) == DecDiv(old_value + new_value, 2)

\* the weighted average entry price of an increased position
AverageEntryPrice(old_value, new_value, total_quantity) ==
    DecDiv(old_value + new_value, total_quantity)

_increase_position(us, uid, trade, leverage) ==
    LET position == get_position(us[uid])
        old_value == position.quantity * position.entry_price
        new_value == trade.quantity * Dec(trade.price)
        total_quantity == position.quantity + trade.quantity
        entry == IF total_quantity > 0
                 THEN AverageEntryPrice(old_value, new_value, total_quantity)
                 ELSE position.entry_price
        additional_collateral ==
            _calculate_required_collateral(trade.quantity, Dec(trade.price), leverage)
        p2 == [position EXCEPT !.entry_price = entry,
                               !.quantity = total_quantity,
                               !.collateral = @ + additional_collateral,
                               !.leverage = Max(@, leverage)]
    IN  [us EXCEPT ![uid].position = Some(p2),
                   ![uid].collateral = @ - IncreaseDeducted(additional_collateral)]

\* realized PNL of closing `quantity` of a position at `price`
RealizedPnl(position, price, quantity) ==
    IF position.side = "long"
    THEN (price - position.entry_price) * quantity
    ELSE (position.entry_price - price) * quantity

CollateralAndPnl(position, realized_pnl) == position.collateral + realized_pnl

\* what _close_position adds to the user's free collateral
CloseReturned(position, realized_pnl) == position.collateral

_close_position(us, uid, trade) ==
    LET position == get_position(us[uid])
        realized_pnl == RealizedPnl(position, Dec(trade.price), position.quantity)
    IN  [us EXCEPT ![uid].total_realized_pnl = @ + realized_pnl,
                   ![uid].collateral = @ + CloseReturned(position, realized_pnl),
                   ![uid].position = None]

WholeQuantity(trade_quantity, position_quantity) == position_quantity

\* the quantity a partial close realizes PNL on
ClosedQuantity(trade_quantity, position_quantity) == trade_quantity

_partial_close_position(us, uid, trade) ==
    LET position == get_position(us[uid])
        realized_pnl == RealizedPnl(position, Dec(trade.price),
                                    ClosedQuantity(trade.quantity, position.quantity))
        collateral_ratio == DecRatio(trade.quantity, position.quantity)
        returned_collateral == DecMul(position.collateral, collateral_ratio)
        p2 == [position EXCEPT !.quantity = @ - trade.quantity,
                               !.collateral = @ - returned_collateral]
    IN  [us EXCEPT ![uid].total_realized_pnl = @ + realized_pnl,
                   ![uid].position = Some(p2),
                   ![uid].collateral = @ + returned_collateral]

ClosesBeyond(trade_quantity, position_quantity) == trade_quantity > position_quantity

\* whether a fill against the position closes it completely
ClosesPosition(trade_quantity, position_quantity) == trade_quantity >= position_quantity

_reduce_position(us, uid, trade) ==
    IF ClosesPosition(trade.quantity, get_position(us[uid]).quantity)
    THEN _close_position(us, uid, trade)
    ELSE _partial_close_position(us, uid, trade)

\* the users after _process_trade_for_user
TradeForUser(us, uid, trade, leverage, side) ==
    IF ~has_position(us[uid])
    THEN LET required_collateral ==
                 _calculate_required_collateral(trade.quantity, Dec(trade.price), leverage)
         IN  [us EXCEPT ![uid].collateral = @ - required_collateral,
                        ![uid].position =
                            Some(Position(side, trade.quantity, Dec(trade.price),
                                          leverage, required_collateral))]
    ELSE IF get_position(us[uid]).side = side
         THEN _increase_position(us, uid, trade, leverage)
         ELSE _reduce_position(us, uid, trade)

\* the round trip a fill continues or starts: the free collateral before the
\* position opened, the opening price, whether every fill since was at that
\* price, and the number of fills
RoundTrip(op, user, trade) ==
    IF ~has_position(user)
    THEN [free |-> user.collateral, price |-> trade.price, same |-> TRUE, fills |-> 1]
    ELSE [op EXCEPT !.same = @ /\ trade.price = op.price, !.fills = @ + 1]

_process_trade_for_user(pm, uid, trade, leverage, side) ==
    [users |-> TradeForUser(pm.users, uid, trade, leverage, side),
     opened |-> [pm.opened EXCEPT ![uid] = RoundTrip(@, pm.users[uid], trade)]]

process_trade(pm, trade, buy_order, sell_order) ==
    IF buy_order.user_id \notin DOMAIN pm.users \/ sell_order.user_id \notin DOMAIN pm.users
    THEN pm
    ELSE LET pm1 == _process_trade_for_user(pm, buy_order.user_id, trade,
                                            buy_order.leverage, "long")
         IN  _process_trade_for_user(pm1, sell_order.user_id, trade,
                                     sell_order.leverage, "short")

\* ----------------------------------------------------- OrderMatchingEngine
\* what an operation returned: "valid" / "success" and the message
Reply(op, ok, message) == [op |-> op, ok |-> ok, message |-> message]

\* the matching engine as one record: its order book, its position manager
\* and its two histories
Engine ==
    [book |-> Book, pm |-> PM,
     order_history |-> order_history, trade_history |-> trade_history]

SetEngine(e) ==
    /\ SetBook(e.book)
    /\ users' = e.pm.users
    /\ order_history' = e.order_history
    /\ trade_history' = e.trade_history

QuantityBelowZero(quantity) == quantity < 0

\* if order.quantity <= Decimal('0'): not valid
QuantityRejected(quantity) == quantity <= 0

\* the message of the check that fails, "" when the order is valid; side and
\* order type are enum members, so their two checks never fail
_validate_order(order) ==
    IF QuantityRejected(order.quantity) THEN "Order quantity must be greater than 0"
    ELSE IF order.price <= 0 THEN "Order price must be greater than 0"
    ELSE IF order.leverage < 1 \/ order.leverage > 10
         THEN "Leverage must be between 1 and 10"
    ELSE ""

MarginNotAbove(collateral, required_margin) == collateral <= required_margin

\* if user.collateral < required_margin: not valid
InsufficientMargin(collateral, required_margin) == collateral < required_margin

_check_margin_requirements(pm, order) ==
    IF order.user_id \notin DOMAIN pm.users THEN "User not found"
    ELSE LET position_value == Dec(order.quantity * order.price)
             required_margin == DecDiv(position_value, order.leverage)
         IN  IF InsufficientMargin(pm.users[order.user_id].collateral, required_margin)
             THEN "Insufficient margin"
             ELSE ""

TradeRecord(trade, buy_order, sell_order) ==
    [buy_order_id |-> trade.buy_order_id, sell_order_id |-> trade.sell_order_id,
     buyer |-> buy_order.user_id, seller |-> sell_order.user_id,
     quantity |-> trade.quantity, price |-> trade.price]

\* _process_trades over the trades add_order returned, in order
RECURSIVE _process_trades(_, _)
_process_trades(e, new_trades) ==
    IF new_trades = <<>> THEN e
    ELSE
    LET trade == Head(new_trades) IN
    IF trade.buy_order_id \notin e.book.book_orders
       \/ trade.sell_order_id \notin e.book.book_orders
    THEN _process_trades(e, Tail(new_trades))
    ELSE
    LET buy_order == e.book.orders[trade.buy_order_id]
        sell_order == e.book.orders[trade.sell_order_id]
        e1 == [e EXCEPT !.pm = process_trade(@, trade, buy_order, sell_order),
                        !.trade_history =
                            Append(@, TradeRecord(trade, buy_order, sell_order))]
    IN  _process_trades(e1, Tail(new_trades))

\* the end of place_order: the order's status is set from its fills
OrderPlaced(e, id) ==
    [engine |-> [e EXCEPT !.book.orders[id].status = FillStatus(e.book.orders[id])],
     reply |-> Reply("place_order", TRUE, "Order placed successfully")]

\* the middle of place_order, for a valid order: b is the book after
\* add_order, whose new trades are processed
OrderAccepted(e, b, id) ==
    OrderPlaced(_process_trades([e EXCEPT !.order_history = Append(@, id), !.book = b],
                                SubSeq(b.trades, Len(e.book.trades) + 1, Len(b.trades))),
                id)

\* place_order of a newly created order: the engine after it, and the reply
place_order(e, order) ==
    IF _validate_order(order) # ""
    THEN [engine |-> e, reply |-> Reply("place_order", FALSE, _validate_order(order))]
    ELSE IF _check_margin_requirements(e.pm, order) # ""
    THEN [engine |-> e,
          reply |-> Reply("place_order", FALSE, _check_margin_requirements(e.pm, order))]
    ELSE OrderAccepted(e, add_order(e.book, order), Len(e.book.orders) + 1)

AnyUser(order, user_id) == FALSE

\* if order.user_id != user_id: unauthorized
NotOwner(order, user_id) == order.user_id # user_id

\* OrderMatchingEngine.cancel_order
engine_cancel_order(e, order_id, user_id) ==
    IF order_id \notin e.book.book_orders
    THEN [engine |-> e, reply |-> Reply("cancel_order", FALSE, "Order not found")]
    ELSE
    LET order == e.book.orders[order_id] IN
    IF NotOwner(order, user_id)
    THEN [engine |-> e,
          reply |-> Reply("cancel_order", FALSE, "Unauthorized to cancel this order")]
    ELSE IF order.status \in {"filled", "cancelled"}
    THEN [engine |-> e,
          reply |-> Reply("cancel_order", FALSE, "Cannot cancel order with status")]
    ELSE IF cancel_ok(e.book, order_id)
    THEN [engine |-> [e EXCEPT !.book = cancel_order(@, order_id)],
          reply |-> Reply("cancel_order", TRUE, "Order cancelled successfully")]
    ELSE [engine |-> e, reply |-> Reply("cancel_order", FALSE, "Failed to cancel order")]

\* -------------------------------------------------------------- MarketData
\* the quotient of two Decimals
DecQuot(a, b) == DecDiv(a * Scale, b)

MarketData(mark_price, index_price, funding_rate) ==
    [mark_price |-> mark_price, index_price |-> index_price,
     funding_rate |-> funding_rate]

\* ------------------------------------------------- Position: margin health
maintenance_rate == DecRatio(5, 100)

equity(position) == position.collateral + position.unrealized_pnl

maintenance_margin(position, mark_price) ==
    DecMul(position.quantity * mark_price, maintenance_rate)

is_liquidatable(position, mark_price) ==
    equity(position) < maintenance_margin(position, mark_price)

\* ------------------------------------- PositionManager: market data, risk
_update_position_pnl_long(position, current_price) ==
    [position EXCEPT !.unrealized_pnl =
        (current_price - position.entry_price) * position.quantity]

_update_position_pnl(position, current_price) ==
    [position EXCEPT !.unrealized_pnl =
        IF position.side = "long"
        THEN (current_price - position.entry_price) * position.quantity
        ELSE (position.entry_price - current_price) * position.quantity]

_update_all_unrealized_pnl(us, md) ==
    [u \in DOMAIN us |->
        IF has_position(us[u])
        THEN [us[u] EXCEPT !.position =
                 Some(_update_position_pnl(get_position(us[u]), md.mark_price))]
        ELSE us[u]]

\* update_market_data: the users after it (market_data is set by the caller)
update_market_data(us, md) == _update_all_unrealized_pnl(us, md)

PositionsHeld(us, mark_price) == {u \in DOMAIN us : has_position(us[u])}

\* the owners of the positions get_liquidatable_positions returns
get_liquidatable_positions(us, mark_price) ==
    {u \in DOMAIN us :
        has_position(us[u]) /\ is_liquidatable(get_position(us[u]), mark_price)}

liquidation_fee_rate == DecRatio(1, 100)

RemainingCollateral(remaining_collateral) == remaining_collateral

\* user.collateral += max(Decimal('0'), remaining_collateral)
LiquidationCredit(remaining_collateral) == Max(0, remaining_collateral)

FirstUser(position_user_id) == UserList[1]

\* user = self.users[position.user_id]
PositionOwner(position_user_id) == position_user_id

\* PositionManager.liquidate_position: the users after it, and the fee
pm_liquidate_position(us, uid, has_md, md) ==
    IF ~has_md THEN [users |-> us, fee |-> 0]
    ELSE
    LET position == get_position(us[uid])
        owner == PositionOwner(uid)
        liquidation_price == md.mark_price
        realized_pnl == RealizedPnl(position, liquidation_price, position.quantity)
        position_value == position.quantity * liquidation_price
        liquidation_fee == DecMul(position_value, liquidation_fee_rate)
        remaining_collateral == position.collateral + realized_pnl - liquidation_fee
    IN  [users |-> [us EXCEPT ![owner].total_realized_pnl = @ + realized_pnl,
                              ![owner].collateral = @ + LiquidationCredit(remaining_collateral),
                              ![owner].position = None],
         fee |-> liquidation_fee]

ShortFundingUnsigned(position_value, funding_rate) == DecMul(position_value, funding_rate)

\* return position_value * (-funding_rate)
ShortFunding(position_value, funding_rate) == DecMul(position_value, -funding_rate)

_calculate_funding_payment(position, md) ==
    LET position_value == position.quantity * md.mark_price
    IN  IF position.side = "long"
        THEN DecMul(position_value, md.funding_rate)
        ELSE ShortFunding(position_value, md.funding_rate)

CollateralPlusFunding(collateral, funding_payment) == collateral + funding_payment

\* user.collateral -= funding_payment
CollateralAfterFunding(collateral, funding_payment) == collateral - funding_payment

NoMarketData(has_md, md) == ~has_md

\* if not self.market_data or self.market_data.funding_rate == Decimal('0')
NoFundingDue(has_md, md) == ~has_md \/ md.funding_rate = 0

\* PositionManager.apply_funding: the users after it, and the payments
pm_apply_funding(us, has_md, md) ==
    IF NoFundingDue(has_md, md)
    THEN [users |-> us, funding_payments |-> <<>>]
    ELSE
    LET paying == {u \in DOMAIN us : has_position(us[u])}
        payment == [u \in paying |-> _calculate_funding_payment(get_position(us[u]), md)]
    IN  [users |-> [u \in DOMAIN us |->
                      IF u \in paying
                      THEN [us[u] EXCEPT
                              !.position = Some([get_position(us[u]) EXCEPT
                                                   !.funding_paid = @ + payment[u]]),
                              !.collateral = CollateralAfterFunding(@, payment[u])]
                      ELSE us[u]],
         funding_payments |-> payment]

\* ------------------------------------------------------ FundingRateManager
funding_interval_hours == 8

funding_rate_cap_tenth == DecRatio(1, 10)

funding_rate_cap == DecRatio(1, 100)

calculate_funding_rate(md) ==
    IF md.index_price = 0 THEN 0
    ELSE LET price_diff == md.mark_price - md.index_price
             funding_rate == DecMul(DecQuot(price_diff, md.index_price), DecRatio(1, 8))
         IN  Min(Max(funding_rate, -funding_rate_cap), funding_rate_cap)

AlwaysDue(last_time, now) == TRUE

should_apply_funding(last_time, now) ==
    IF last_time = None THEN TRUE
    ELSE now - last_time[1] >= funding_interval_hours

FundingRecord(now, md, funding_payments) ==
    [timestamp |-> now,
     funding_rate |-> Float(md.funding_rate),
     mark_price |-> Float(md.mark_price),
     index_price |-> Float(md.index_price),
     funding_payments |-> [u \in DOMAIN funding_payments |-> Float(funding_payments[u])],
     total_funding_paid |-> Float(SumOver(funding_payments, DOMAIN funding_payments))]

StaleFundingTime(last_time, now) == last_time

\* self.last_funding_time = current_time
NewFundingTime(last_time, now) == Some(now)

\* FundingRateManager.apply_funding: what it returns and what it leaves
apply_funding(us, has_md, md, history, last_time, now) ==
    IF ~should_apply_funding(last_time, now)
    THEN [applied |-> FALSE, message |-> "Funding not due yet",
          funding_payments |-> <<>>, users |-> us, market_data |-> md,
          funding_history |-> history, last_funding_time |-> last_time]
    ELSE
    LET funding_rate == calculate_funding_rate(md)
        md1 == [md EXCEPT !.funding_rate = funding_rate]
        paid == pm_apply_funding(us, has_md, md1)
        funding_record == FundingRecord(now, md1, paid.funding_payments)
    IN  [applied |-> TRUE, message |-> "Funding applied successfully",
         funding_payments |-> paid.funding_payments,
         users |-> paid.users, market_data |-> md1,
         funding_history |-> Append(history, funding_record),
         last_funding_time |-> NewFundingTime(last_time, now)]

\* -------------------------------------------------------- LiquidationEngine
margin_ratio(position, mark_price) ==
    IF maintenance_margin(position, mark_price) > 0
    THEN Some(DecQuot(equity(position), maintenance_margin(position, mark_price)))
    ELSE None

DropRecord(history, liquidation_record) == history

\* self.liquidation_history.append(liquidation_record)
RecordLiquidation(history, liquidation_record) == Append(history, liquidation_record)

\* LiquidationEngine.liquidate_position of the position of user uid
liquidate_position(us, uid, has_md, md, history) ==
    LET position == get_position(us[uid])
        liquidation_price == md.mark_price
        position_value == position.quantity * liquidation_price
        realized_pnl == RealizedPnl(position, liquidation_price, position.quantity)
        liquidation_fee == DecMul(position_value, liquidation_fee_rate)
        final_collateral == position.collateral + realized_pnl - liquidation_fee
        done == pm_liquidate_position(us, uid, has_md, md)
        liquidation_record ==
            [user_id |-> uid,
             position_side |-> position.side,
             position_quantity |-> Float(position.quantity),
             entry_price |-> Float(position.entry_price),
             liquidation_price |-> Float(liquidation_price),
             realized_pnl |-> Float(realized_pnl),
             liquidation_fee |-> Float(liquidation_fee),
             initial_collateral |-> Float(position.collateral),
             final_collateral |-> Float(Max(0, final_collateral)),
             margin_ratio_before |-> margin_ratio(position, md.mark_price),
             leverage |-> position.leverage,
             actual_liquidation_fee |-> Float(done.fee)]
    IN  [users |-> done.users,
         liquidation_history |-> RecordLiquidation(history, liquidation_record)]

\* the loop of check_liquidations over the positions found, in the order
\* of the users table
RECURSIVE LiquidateEach(_, _, _, _, _, _)
LiquidateEach(i, found, us, has_md, md, history) ==
    IF i > Len(UserList) THEN [users |-> us, liquidation_history |-> history]
    ELSE IF UserList[i] \in found
    THEN LET done == liquidate_position(us, UserList[i], has_md, md, history)
         IN  LiquidateEach(i + 1, found, done.users, has_md, md, done.liquidation_history)
    ELSE LiquidateEach(i + 1, found, us, has_md, md, history)

check_liquidations(us, has_md, md, history) ==
    LiquidateEach(1, get_liquidatable_positions(us, md.mark_price), us, has_md, md, history)

\* a Decimal that may be Decimal('inf'): a finite value, or infinity
Finite(d) == [infinite |-> FALSE, value |-> d]

Infinity == [infinite |-> TRUE, value |-> 0]

\* a / b for two Decimals, b # 0
DecQuotSigned(a, b) == IF b < 0 THEN DecQuot(-a, -b) ELSE DecQuot(a, b)

Abs(d) == IF d < 0 THEN -d ELSE d

\* the value returned when the denominator is 0
NoLiquidationPrice(side) == IF side = "long" THEN Finite(0) ELSE Infinity

LongDenominator(quantity) == quantity * maintenance_rate - Dec(quantity)

ShortDenominatorMinus(quantity) == quantity * maintenance_rate - Dec(quantity)

\* denominator = position.quantity * Decimal('0.05') + position.quantity
ShortDenominator(quantity) == quantity * maintenance_rate + Dec(quantity)

_calculate_liquidation_price(position, md) ==
    IF position.side = "long"
    THEN LET numerator == position.collateral
                            - position.entry_price * position.quantity
             denominator == LongDenominator(position.quantity)
         IN  IF denominator # 0 THEN Finite(DecQuotSigned(numerator, denominator))
             ELSE NoLiquidationPrice("long")
    ELSE LET numerator == position.collateral
                            + position.entry_price * position.quantity
             denominator == ShortDenominator(position.quantity)
         IN  IF denominator # 0 THEN Finite(DecQuotSigned(numerator, denominator))
             ELSE NoLiquidationPrice("short")

\* the dictionary _analyze_position_liquidation_risk returns
_analyze_position_liquidation_risk(position, md) ==
    LET unrealized_pnl ==
            IF position.side = "long"
            THEN (md.mark_price - position.entry_price) * position.quantity
            ELSE (position.entry_price - md.mark_price) * position.quantity
        position_equity == position.collateral + unrealized_pnl
        position_value == position.quantity * md.mark_price
        position_maintenance == DecMul(position_value, maintenance_rate)
        ratio == IF position_maintenance > 0
                 THEN Finite(DecQuot(position_equity, position_maintenance))
                 ELSE Infinity
        liquidation_price == _calculate_liquidation_price(position, md)
        distance == IF liquidation_price.infinite THEN Infinity
                    ELSE Finite(Abs(md.mark_price - liquidation_price.value))
        percent == IF distance.infinite THEN Infinity
                   ELSE Finite(DecQuot(distance.value, md.mark_price) * 100)
    IN  [mark_price |-> Float(md.mark_price),
         unrealized_pnl |-> Float(unrealized_pnl),
         equity |-> Float(position_equity),
         maintenance_margin |-> Float(position_maintenance),
         margin_ratio |-> Float(ratio),
         is_liquidatable |-> position_equity < position_maintenance,
         liquidation_price |-> Float(liquidation_price),
         price_distance_to_liquidation |-> Float(distance),
         liquidation_distance_percent |-> Float(percent)]

\* ------------------------------------------------------------------- Init
Applied(n, trade, buy_order, sell_order) ==
    [n |-> n, trade |-> trade,
     buyer |-> buy_order.user_id, buy_leverage |-> buy_order.leverage,
     seller |-> sell_order.user_id, sell_leverage |-> sell_order.leverage]

Last(op, ok) == Reply(op, ok, "")

InitialPrice == 1

\* the position in the body of the loop over the hours, whether an event of
\* this hour has set the price, and the calls made in this hour so far
Loop(step, price_update_event, calls) ==
    [step |-> step, price_update_event |-> price_update_event, calls |-> calls]

Init ==
    /\ SetBookInit
    /\ users = [u \in Users |-> User(Dec(InitialCollateral))]
    /\ opened = [u \in Users |-> [free |-> 0, price |-> 0, same |-> TRUE, fills |-> 0]]
    /\ applied = Applied(0, Trade(0, 0, 0, 0), Order("", "buy", 0, 0, 0), Order("", "sell", 0, 0, 0))
    /\ last = Last("init", TRUE)
    /\ order_history = <<>>
    /\ trade_history = <<>>
    /\ market_data = MarketData(Dec(InitialPrice), Dec(InitialPrice), 0)
    /\ pm_market_data = FALSE
    /\ current_time = 0
    /\ funding_history = <<>>
    /\ last_funding_time = None
    /\ liquidation_history = <<>>
    /\ loop = Loop("events", FALSE, <<>>)
    /\ risk_analysis = None

\* ----------------------------------------------------- order book actions
\* OrderBook.add_order called with a new order
AddOrder ==
    /\ Len(orders) < MaxOrders
    /\ \E side \in Sides, q \in Quantities, p \in Prices :
         /\ SetBook(add_order(Book, Order("user1", side, q, p, 1)))
         /\ last' = Last("add_order", TRUE)
    /\ UNCHANGED <<driverVars, pmVars, engineVars, riskVars>>

\* OrderBook.cancel_order called with the id of an order created before
CancelOrder ==
    /\ \E id \in 1..Len(orders) :
         /\ SetBook(cancel_order(Book, id))
         /\ last' = Last("cancel_order", cancel_ok(Book, id))
    /\ UNCHANGED <<driverVars, pmVars, engineVars, riskVars>>

NextBook == AddOrder \/ CancelOrder

SpecBook == Init /\ [][NextBook]_vars

\* OrderBook.add_order called with a new order of quantity 0, which the order
\* book, called directly, takes as any other
AddZeroOrder ==
    /\ Len(orders) < MaxOrders
    /\ \E side \in Sides, p \in Prices :
         /\ SetBook(add_order(Book, Order("user1", side, 0, p, 1)))
         /\ last' = Last("add_order", TRUE)
    /\ UNCHANGED <<driverVars, pmVars, engineVars, riskVars>>

NextBookAny == AddOrder \/ AddZeroOrder \/ CancelOrder

SpecBookAny == Init /\ [][NextBookAny]_vars

\* ------------------------------------------------- position manager actions
\* PositionManager.process_trade called with a trade and its two orders
ProcessTrade ==
    /\ applied.n < MaxTrades
    /\ \E b \in Users, s \in Users, q \in Quantities, p \in Prices,
          lb \in Leverages, ls \in Leverages :
         LET trade == Trade(0, 0, q, p)
             buy_order == Order(b, "buy", q, p, lb)
             sell_order == Order(s, "sell", q, p, ls)
             pm == process_trade(PM, trade, buy_order, sell_order)
         IN  /\ users' = pm.users
             /\ opened' = pm.opened
             /\ applied' = Applied(applied.n + 1, trade, buy_order, sell_order)
             /\ last' = Last("process_trade", TRUE)
    /\ UNCHANGED <<driverVars, bookVars, engineVars, riskVars>>

NextPM == ProcessTrade

SpecPM == Init /\ [][NextPM]_vars

\* ------------------------------------------------- matching engine actions
OrderUsers == Users \cup {"user0"}

\* quantity, price and leverage of the orders submitted: every well-formed
\* combination, and combinations with one field out of range
OrderShapes ==
    (Quantities \X Prices \X Leverages)
      \cup {<<0, 1, 1>>, <<-1, 1, 1>>, <<1, 0, 1>>, <<1, -1, 1>>, <<1, 1, 0>>, <<1, 1, 11>>}

\* the orders submitted: every well-formed order of every known user, and one
\* order for each way of being refused before the user's collateral is looked
\* at (a refused order leaves nothing behind but its reply, which names the
\* reason only)
OrderRequests ==
    (Users \X Sides \X (Quantities \X Prices \X Leverages))
      \cup {<<"user1", "buy", shape>> : shape \in OrderShapes}
      \cup {<<"user0", "buy", <<1, 1, 1>>>>}

\* OrderMatchingEngine.place_order called with a new order
PlaceOrder ==
    /\ Len(orders) < MaxPlaced
    /\ \E request \in OrderRequests :
         LET shape == request[3]
             done == place_order(Engine, Order(request[1], request[2],
                                               shape[1], shape[2], shape[3]))
         IN  /\ SetEngine(done.engine)
             /\ last' = done.reply
    /\ UNCHANGED <<driverVars, opened, applied, riskVars>>

\* the order ids a cancel request may name: those of the orders created so
\* far, and one that no order has
CancelIds == 1..(Len(orders) + 1)

\* OrderMatchingEngine.cancel_order called by a user
CancelRequest ==
    /\ \E id \in CancelIds, u \in Users :
         LET done == engine_cancel_order(Engine, id, u)
         IN  /\ SetEngine(done.engine)
             /\ last' = done.reply
    /\ UNCHANGED <<driverVars, opened, applied, riskVars>>

NextEngine == PlaceOrder \/ CancelRequest

SpecEngine == Init /\ [][NextEngine]_vars

\* ------------------------------------- market, funding, liquidation actions
\* a fill reaches the position manager: process_trade, as the matching engine
\* calls it for a trade between two orders (here only counted in `applied`)
Fill ==
    /\ applied.n < MaxFills
    /\ \E b \in Users, s \in Users, q \in Quantities, p \in Prices,
          lb \in Leverages, ls \in Leverages :
         users' = process_trade(PM, Trade(0, 0, q, p), Order(b, "buy", q, p, lb),
                                Order(s, "sell", q, p, ls)).users
    /\ applied' = [applied EXCEPT !.n = @ + 1]
    /\ last' = Last("process_trade", TRUE)
    /\ UNCHANGED <<driverVars, bookVars, opened, engineVars, riskVars>>

\* the driver sets the mark and index price and calls update_market_data
UpdateMarketData ==
    /\ \E mark \in Prices, index \in Prices :
         LET md == [market_data EXCEPT !.mark_price = Dec(mark),
                                      !.index_price = Dec(index)]
         IN  /\ market_data' = md
             /\ pm_market_data' = TRUE
             /\ users' = update_market_data(users, md)
    /\ last' = Last("update_market_data", TRUE)
    /\ UNCHANGED <<driverVars, bookVars, opened, applied, engineVars, current_time,
                   fundingVars, liquidation_history>>

\* the price oracle moves the price, which it writes to the mark and to the
\* index price alike (the funding rate of equal prices is 0), and the driver
\* hands the market data to the position manager
UpdatePrice ==
    /\ \E new_price \in Prices :
         LET md == MarketData(Dec(new_price), Dec(new_price), 0)
         IN  /\ market_data' = md
             /\ pm_market_data' = TRUE
             /\ users' = update_market_data(users, md)
    /\ last' = Last("update_market_data", TRUE)
    /\ UNCHANGED <<driverVars, bookVars, opened, applied, engineVars, current_time,
                   fundingVars, liquidation_history>>

\* simulated hours pass
AdvanceTime ==
    /\ \E d \in TimeSteps :
         /\ current_time + d <= MaxTime
         /\ current_time' = current_time + d
    /\ last' = Last("advance_time", TRUE)
    /\ UNCHANGED <<driverVars, bookVars, pmVars, engineVars, market_data, pm_market_data,
                   fundingVars, liquidation_history>>

\* FundingRateManager.apply_funding(market_data, current_time)
ApplyFunding ==
    /\ LET done == apply_funding(users, pm_market_data, market_data,
                                 funding_history, last_funding_time, current_time)
       IN  /\ users' = done.users
           /\ market_data' = done.market_data
           /\ funding_history' = done.funding_history
           /\ last_funding_time' = done.last_funding_time
           /\ last' = Reply("apply_funding", done.applied, done.message)
    /\ UNCHANGED <<driverVars, bookVars, opened, applied, engineVars, pm_market_data,
                   current_time, liquidation_history>>

NextFunding == Fill \/ UpdateMarketData \/ AdvanceTime \/ ApplyFunding

SpecFunding == Init /\ [][NextFunding]_vars

\* LiquidationEngine.check_liquidations(market_data)
CheckLiquidations ==
    /\ Len(liquidation_history) < MaxLiquidations
    /\ LET done == check_liquidations(users, pm_market_data, market_data,
                                      liquidation_history)
       IN  /\ users' = done.users
           /\ liquidation_history' = done.liquidation_history
    /\ last' = Last("check_liquidations", TRUE)
    /\ UNCHANGED <<driverVars, bookVars, opened, applied, engineVars, marketVars, fundingVars>>

\* LiquidationEngine.liquidate_position(position, market_data), of any open
\* position
LiquidatePosition ==
    /\ Len(liquidation_history) < MaxLiquidations
    /\ \E u \in Users :
         /\ has_position(users[u])
         /\ LET done == liquidate_position(users, u, pm_market_data, market_data,
                                           liquidation_history)
            IN  /\ users' = done.users
                /\ liquidation_history' = done.liquidation_history
    /\ last' = Last("liquidate_position", TRUE)
    /\ UNCHANGED <<driverVars, bookVars, opened, applied, engineVars, marketVars, fundingVars>>

NextLiquidation == Fill \/ UpdatePrice \/ CheckLiquidations \/ LiquidatePosition

SpecLiquidation == Init /\ [][NextLiquidation]_vars

\* ------------------------------------------- orders, prices, liquidations
\* the exchange as the driver runs it between funding settlements: orders are
\* placed through the matching engine, the price moves, and the positions are
\* scanned, which liquidates each position found
NextExchange == PlaceOrder \/ UpdatePrice \/ CheckLiquidations

SpecExchange == Init /\ [][NextExchange]_vars

\* ------------------------------------------------------- the driver loop
\* TradingSimulator.run_simulation: the body of the loop over the hours 0 to
\* MaxTime.  The events of an hour are whatever the configuration and the
\* random events added in earlier hours schedule for it: orders and at most
\* one price update (funding applications scheduled as events are left to
\* SpecFunding).  Of the orders only the fills are followed, as in SpecFunding
\* and SpecLiquidation.
\* _process_order_event: matching_engine.place_order of an order that crosses
\* a resting one, whose fill reaches the position manager
ProcessOrderEvent ==
    /\ loop.step = "events"
    /\ Fill

\* _process_price_update_event: price_oracle.update_price
ProcessPriceUpdateEvent ==
    /\ loop.step = "events"
    /\ ~loop.price_update_event
    /\ \E new_price \in Prices :
         market_data' = MarketData(Dec(new_price), Dec(new_price), 0)
    /\ loop' = [loop EXCEPT !.price_update_event = TRUE,
                            !.calls = Append(@, "update_price")]
    /\ last' = Last("update_price", TRUE)
    /\ UNCHANGED <<bookVars, pmVars, engineVars, pm_market_data, current_time,
                   fundingVars, liquidation_history, risk_analysis>>

\* _process_hourly_events returns
EndEvents ==
    /\ loop.step = "events"
    /\ loop' = [loop EXCEPT !.step = "price"]
    /\ last' = Last("_process_hourly_events", TRUE)
    /\ UNCHANGED <<bookVars, pmVars, engineVars, riskVars, risk_analysis>>

\* if not self._has_price_update_event(hour): self._update_price_randomly()
UpdatePriceRandomly ==
    /\ loop.step = "price"
    /\ IF loop.price_update_event
       THEN /\ loop' = [loop EXCEPT !.step = "update"]
            /\ UNCHANGED market_data
       ELSE /\ \E new_price \in Prices :
                 market_data' = MarketData(Dec(new_price), Dec(new_price), 0)
            /\ loop' = [loop EXCEPT !.step = "update",
                                    !.calls = Append(@, "update_price")]
    /\ last' = Last("update_price", TRUE)
    /\ UNCHANGED <<bookVars, pmVars, engineVars, pm_market_data, current_time,
                   fundingVars, liquidation_history, risk_analysis>>

\* self.position_manager.update_market_data(market_data)
UpdatePositions ==
    /\ loop.step = "update"
    /\ pm_market_data' = TRUE
    /\ users' = update_market_data(users, market_data)
    /\ loop' = [loop EXCEPT !.step = "liquidations",
                            !.calls = Append(@, "update_market_data")]
    /\ last' = Last("update_market_data", TRUE)
    /\ UNCHANGED <<bookVars, opened, applied, engineVars, market_data, current_time,
                   fundingVars, liquidation_history, risk_analysis>>

\* liquidations = self.liquidation_engine.check_liquidations(market_data)
ScanLiquidations ==
    /\ loop.step = "liquidations"
    /\ LET done == check_liquidations(users, pm_market_data, market_data,
                                      liquidation_history)
       IN  /\ users' = done.users
           /\ liquidation_history' = done.liquidation_history
    /\ loop' = [loop EXCEPT !.step = "funding",
                            !.calls = Append(@, "check_liquidations")]
    /\ last' = Last("check_liquidations", TRUE)
    /\ UNCHANGED <<bookVars, opened, applied, engineVars, marketVars, fundingVars,
                   risk_analysis>>

EveryEighthHour(hour) == hour % 8 = 0

\* if hour % 8 == 0 and hour > 0
PeriodicFundingDue(hour) == hour % 8 = 0 /\ hour > 0

\* the periodic funding settlement, and the end of the hour's body
PeriodicFunding ==
    /\ loop.step = "funding"
    /\ IF PeriodicFundingDue(current_time)
       THEN LET done == apply_funding(users, pm_market_data, market_data,
                                      funding_history, last_funding_time, current_time)
            IN  /\ users' = done.users
                /\ market_data' = done.market_data
                /\ funding_history' = done.funding_history
                /\ last_funding_time' = done.last_funding_time
                /\ last' = Reply("apply_funding", done.applied, done.message)
                /\ loop' = [loop EXCEPT !.step = "summary",
                                        !.calls = Append(@, "apply_funding")]
       ELSE /\ UNCHANGED <<users, market_data, fundingVars>>
            /\ last' = Last("_log_hourly_summary", TRUE)
            /\ loop' = [loop EXCEPT !.step = "summary"]
    /\ UNCHANGED <<bookVars, opened, applied, engineVars, pm_market_data,
                   current_time, liquidation_history, risk_analysis>>

\* for hour in range(hours + 1): the next hour
NextHour ==
    /\ loop.step = "summary"
    /\ current_time < MaxTime
    /\ current_time' = current_time + 1
    /\ loop' = Loop("events", FALSE, <<>>)
    /\ last' = Last("next_hour", TRUE)
    /\ UNCHANGED <<bookVars, pmVars, engineVars, market_data, pm_market_data,
                   fundingVars, liquidation_history, risk_analysis>>

NextSimulation ==
    \/ ProcessOrderEvent
    \/ ProcessPriceUpdateEvent
    \/ EndEvents
    \/ UpdatePriceRandomly
    \/ UpdatePositions
    \/ ScanLiquidations
    \/ PeriodicFunding
    \/ NextHour

SpecSimulation == Init /\ [][NextSimulation]_vars

\* ------------------------------------------------- liquidation risk alone
\* the positions handed to the risk analysis: either side, no quantity or
\* some, and posted collateral from none to the whole initial collateral, the
\* maintenance margin of a position of 1 at price 2 among them
RiskQuantities == Quantities \cup {0}

RiskCollaterals == {0, DecRatio(1, 10), DecRatio(1, 2), Dec(1), Dec(InitialCollateral)}

\* as Init, with a position of user1 built from any of these and a mark price
InitRisk ==
    /\ SetBookInit
    /\ \E side \in {"long", "short"}, q \in RiskQuantities, entry \in Prices,
          c \in RiskCollaterals :
         users = [u \in Users |->
                    IF u = UserList[1]
                    THEN [User(Dec(InitialCollateral)) EXCEPT
                            !.position = Some(Position(side, q, Dec(entry), 1, c))]
                    ELSE User(Dec(InitialCollateral))]
    /\ opened = [u \in Users |-> [free |-> 0, price |-> 0, same |-> TRUE, fills |-> 0]]
    /\ applied = Applied(0, Trade(0, 0, 0, 0), Order("", "buy", 0, 0, 0), Order("", "sell", 0, 0, 0))
    /\ last = Last("init", TRUE)
    /\ order_history = <<>>
    /\ trade_history = <<>>
    /\ \E mark \in Prices : market_data = MarketData(Dec(mark), Dec(mark), 0)
    /\ pm_market_data = FALSE
    /\ current_time = 0
    /\ funding_history = <<>>
    /\ last_funding_time = None
    /\ liquidation_history = <<>>
    /\ loop = Loop("events", FALSE, <<>>)
    /\ risk_analysis = None

\* LiquidationEngine._analyze_position_liquidation_risk(position, market_data)
AnalyzePosition ==
    /\ \E u \in Users :
         /\ has_position(users[u])
         /\ risk_analysis' =
              Some(_analyze_position_liquidation_risk(get_position(users[u]), market_data))
    /\ last' = Last("_analyze_position_liquidation_risk", TRUE)
    /\ UNCHANGED <<bookVars, pmVars, engineVars, riskVars, loop>>

NextRisk == AnalyzePosition

SpecRisk == InitRisk /\ [][NextRisk]_vars

\* ------------------------------------------- the funding manager alone
\* mark and index prices a MarketData is built with: no price, small prices,
\* and prices a few percent around 100
RatePrices == {0, 1, 2, 92, 96, 100, 101, 104, 108, 109}

\* as Init, with the market data built from any mark and index price
InitRate ==
    /\ SetBookInit
    /\ users = [u \in Users |-> User(Dec(InitialCollateral))]
    /\ opened = [u \in Users |-> [free |-> 0, price |-> 0, same |-> TRUE, fills |-> 0]]
    /\ applied = Applied(0, Trade(0, 0, 0, 0), Order("", "buy", 0, 0, 0), Order("", "sell", 0, 0, 0))
    /\ last = Last("init", TRUE)
    /\ order_history = <<>>
    /\ trade_history = <<>>
    /\ \E mark \in RatePrices, index \in RatePrices :
         market_data = MarketData(Dec(mark), Dec(index), 0)
    /\ pm_market_data = FALSE
    /\ current_time = 0
    /\ funding_history = <<>>
    /\ last_funding_time = None
    /\ liquidation_history = <<>>
    /\ loop = Loop("events", FALSE, <<>>)
    /\ risk_analysis = None

\* FundingRateManager.reset_funding_history()
ResetFundingHistory ==
    /\ funding_history' = <<>>
    /\ last_funding_time' = None
    /\ last' = Last("reset_funding_history", TRUE)
    /\ UNCHANGED <<driverVars, bookVars, pmVars, engineVars, marketVars, liquidation_history>>

NextRate == AdvanceTime \/ ApplyFunding \/ ResetFundingHistory

SpecRate == InitRate /\ [][NextRate]_vars

\* ===================================================== order book claims
OrderIds == 1..Len(orders)

TradeIds == 1..Len(trades)

\* the step is an add_order call; the incoming order is Len(orders')
IsAddOrderStep == Len(orders') = Len(orders) + 1

\* the trades of the step
NewTradeIds == (Len(trades) + 1)..Len(trades')

Crosses(buy_price, sell_price) == buy_price >= sell_price

\* C1: whenever both a best bid and a best ask exist, the best bid is
\* strictly less than the best ask, and no resting buy order has a price
\* greater than or equal to the price of a resting sell order.
C1_NoCrossedBook ==
    /\ (best_bid # None /\ best_ask # None) => best_bid[1] < best_ask[1]
    /\ \A b \in Resting(buy_levels), s \in Resting(sell_levels) :
         ~Crosses(orders[b].price, orders[s].price)

\* C2: within a price level the orders queue in submission order; in any
\* step, an order behind another in its queue is filled only if the one in
\* front ends the step completely filled, and an order that stays open keeps
\* its place: nothing that was behind it, and nothing new, gets in front.
QueuePriority(levels, levels2) ==
    \A p \in DOMAIN levels :
      LET q == levels[p].orders IN
      \A i \in 1..Len(q) :
        /\ \A j \in (i + 1)..Len(q) :
             /\ q[i] < q[j]
             /\ orders'[q[j]].filled_quantity > orders[q[j]].filled_quantity
                  => orders'[q[i]].status = "filled"
        /\ orders'[q[i]].status \notin {"filled", "cancelled"}
             => /\ p \in DOMAIN levels2
                /\ \E k \in 1..Len(levels2[p].orders) :
                     /\ levels2[p].orders[k] = q[i]
                     /\ \A m \in 1..(k - 1) :
                          levels2[p].orders[m] \in {q[n] : n \in 1..(i - 1)}

C2_PriceTimePriority ==
    [][QueuePriority(buy_levels, buy_levels') /\ QueuePriority(sell_levels, sell_levels')]_vars

\* two orders rested at one price, a later crossing order traded with the
\* earlier one, partially, and the later one is still unfilled behind it
C2_Witness ==
    \E p \in DOMAIN buy_levels :
      LET q == buy_levels[p].orders IN
      /\ Len(q) >= 2
      /\ orders[q[1]].status = "partially_filled"
      /\ orders[q[2]].filled_quantity = 0
      /\ \E k \in TradeIds : fills[k].resting = q[1] /\ fills[k].incoming > q[2]

\* C3: an incoming order trades against the best-priced opposite level
\* first and keeps trading while that price crosses its limit and it has
\* remaining quantity: no trade of the step is at a price worse than that of
\* an opposite order left resting, and an incoming order that is left with
\* remaining quantity (and is inserted as resting) leaves no resting
\* opposite order that crosses its limit price.
PricePriority ==
    IsAddOrderStep =>
      LET n == Len(orders')
          o == orders'[n]
      IN  IF o.side = "buy"
          THEN /\ \A k \in NewTradeIds, r \in Resting(sell_levels') :
                    trades'[k].price <= orders'[r].price
               /\ (remaining_quantity(o) > 0 \/ n \in Resting(buy_levels'))
                    => \A r \in Resting(sell_levels') : ~Crosses(o.price, orders'[r].price)
          ELSE /\ \A k \in NewTradeIds, r \in Resting(buy_levels') :
                    trades'[k].price >= orders'[r].price
               /\ (remaining_quantity(o) > 0 \/ n \in Resting(sell_levels'))
                    => \A r \in Resting(buy_levels') : ~Crosses(orders'[r].price, o.price)

C3_PricePriority == [][PricePriority]_vars

\* C4: every trade is at the resting order's price, which is no worse for
\* either side than its own limit.
C4_MakerPrice ==
    \A k \in TradeIds :
      /\ trades[k].price = orders[fills[k].resting].price
      /\ trades[k].price <= orders[trades[k].buy_order_id].price
      /\ trades[k].price >= orders[trades[k].sell_order_id].price

\* an incoming buy and an incoming sell each traded at a resting price that
\* differs from their own limit
C4_Witness ==
    /\ \E k \in TradeIds :
         /\ fills[k].incoming = trades[k].buy_order_id
         /\ orders[fills[k].incoming].price > trades[k].price
    /\ \E k \in TradeIds :
         /\ fills[k].incoming = trades[k].sell_order_id
         /\ orders[fills[k].incoming].price < trades[k].price

TradedQuantity(id) ==
    SumSeq([k \in TradeIds |->
              IF id \in {trades[k].buy_order_id, trades[k].sell_order_id}
              THEN trades[k].quantity ELSE 0])

FilledOnSide(side) ==
    SumSeq([id \in OrderIds |->
              IF orders[id].side = side THEN orders[id].filled_quantity ELSE 0])

\* C5: every trade's quantity is the smaller of the two remaining
\* quantities and is positive; every order's filled quantity is the sum of
\* the quantities of its trades; the filled quantities of the buy orders and
\* of the sell orders both sum to the total traded quantity.
C5_FillConservation ==
    /\ \A k \in TradeIds :
         /\ trades[k].quantity > 0
         /\ trades[k].quantity =
              Min(fills[k].incoming_remaining, fills[k].resting_remaining)
    /\ \A id \in OrderIds : orders[id].filled_quantity = TradedQuantity(id)
    /\ FilledOnSide("buy") = SumSeq([k \in TradeIds |-> trades[k].quantity])
    /\ FilledOnSide("sell") = SumSeq([k \in TradeIds |-> trades[k].quantity])

\* one trade was cut by the incoming order's remaining quantity and another
\* by the resting order's
C5_Witness ==
    /\ \E k \in TradeIds : fills[k].incoming_remaining < fills[k].resting_remaining
    /\ \E k \in TradeIds : fills[k].incoming_remaining > fills[k].resting_remaining

\* C6: an incoming order that crosses the single resting opposite order,
\* of a different remaining quantity, makes exactly one trade, of the smaller
\* quantity at the resting price; the smaller order ends filled and out of the
\* book, the larger one ends partially_filled with its remaining quantity
\* reduced by the trade and rests at its own price.
PartialFill ==
    IsAddOrderStep =>
      LET n == Len(orders')
          o == orders'[n]
          own == IF o.side = "buy" THEN buy_levels' ELSE sell_levels'
          opp == IF o.side = "buy" THEN sell_levels ELSE buy_levels
          opp2 == IF o.side = "buy" THEN sell_levels' ELSE buy_levels'
      IN  \A r \in Resting(opp) :
            LET q == remaining_quantity(orders[r]) IN
            ( /\ Resting(opp) = {r}
              /\ IF o.side = "buy" THEN Crosses(o.price, orders[r].price)
                                   ELSE Crosses(orders[r].price, o.price)
              /\ q # o.quantity )
            => /\ Len(trades') = Len(trades) + 1
               /\ trades'[Len(trades')].quantity = Min(q, o.quantity)
               /\ trades'[Len(trades')].price = orders[r].price
               /\ IF q < o.quantity
                  THEN /\ orders'[r].status = "filled"
                       /\ r \notin Resting(opp2)
                       /\ o.status = "partially_filled"
                       /\ remaining_quantity(o) = o.quantity - q
                       /\ o.price \in DOMAIN own
                       /\ n \in Range(own[o.price].orders)
                  ELSE /\ o.status = "filled"
                       /\ n \notin Resting(own)
                       /\ orders'[r].status = "partially_filled"
                       /\ remaining_quantity(orders'[r]) = q - o.quantity
                       /\ r \in Resting(opp2)

C6_PartialFill == [][PartialFill]_vars

\* ================================================ position manager claims
PostedCollateral(user) == IF has_position(user) THEN get_position(user).collateral ELSE 0

TotalCollateral ==
    SumOver([u \in Users |-> users[u].collateral + PostedCollateral(users[u])], Users)

\* C7: the sum of all users' free collateral and of the posted collateral
\* of all open positions is the same after every fill as before it (here: as
\* it was when the users were loaded, fills being the only operations).
C7_CollateralConserved == TotalCollateral = Cardinality(Users) * Dec(InitialCollateral)

\* C8: a user who opened a position and has fully closed it, every fill
\* of the round trip at the opening price, has the free collateral it had
\* before the position opened, and no position.
C8_RoundTrip ==
    \A u \in Users :
      (~has_position(users[u]) /\ opened[u].fills > 0 /\ opened[u].same)
        => users[u].collateral = opened[u].free

\* the step is a process_trade call of a trade between two users, and it
\* fills user u on the side opposite to (or the same as) u's open position
IsFillStep(u) ==
    /\ applied'.n = applied.n + 1
    /\ applied'.buyer # applied'.seller
    /\ u \in {applied'.buyer, applied'.seller}
    /\ has_position(users[u])

FillSide(u) == IF applied'.buyer = u THEN "long" ELSE "short"

FillLeverage(u) == IF applied'.buyer = u THEN applied'.buy_leverage ELSE applied'.sell_leverage

ExitPnl(position, exit_price) ==
    IF position.side = "long"
    THEN (Dec(exit_price) - position.entry_price) * position.quantity
    ELSE (position.entry_price - Dec(exit_price)) * position.quantity

IsFullClose(u) ==
    /\ IsFillStep(u)
    /\ FillSide(u) # get_position(users[u]).side
    /\ applied'.trade.quantity >= get_position(users[u]).quantity

\* C9, as claimed: a full close deletes the position, realizes
\* (exit - entry) * quantity (LONG) or (entry - exit) * quantity (SHORT), and
\* adds the posted collateral plus that realized PNL to the free collateral.
C9_FullClose ==
    [][\A u \in Users :
         IsFullClose(u) =>
           LET position == get_position(users[u])
               pnl == ExitPnl(position, applied'.trade.price)
           IN  /\ ~has_position(users'[u])
               /\ users'[u].total_realized_pnl = users[u].total_realized_pnl + pnl
               /\ users'[u].collateral = users[u].collateral + position.collateral + pnl]_vars

\* C9, amended: a full close deletes the position, adds the realized PNL
\* to the user's cumulative realized PNL, and adds the posted collateral, and
\* nothing else, to the free collateral.
C9_FullCloseAmended ==
    [][\A u \in Users :
         IsFullClose(u) =>
           LET position == get_position(users[u])
               pnl == ExitPnl(position, applied'.trade.price)
           IN  /\ ~has_position(users'[u])
               /\ users'[u].total_realized_pnl = users[u].total_realized_pnl + pnl
               /\ users'[u].collateral = users[u].collateral + position.collateral]_vars

\* a position was opened and has been closed at another price
C9_Witness ==
    \E u \in Users :
      /\ ~has_position(users[u])
      /\ opened[u].fills >= 2
      /\ users[u].total_realized_pnl # 0
      /\ applied.buyer # applied.seller
      /\ u \in {applied.buyer, applied.seller}

\* C10: a fill on the side of the open position takes the margin q * p / L
\* of the fill from the user's free collateral and adds it to the position's
\* posted collateral.
C10_IncreaseMargin ==
    [][\A u \in Users :
         (IsFillStep(u) /\ FillSide(u) = get_position(users[u]).side) =>
           LET margin == DecDiv(applied'.trade.quantity * Dec(applied'.trade.price),
                                FillLeverage(u))
           IN  /\ has_position(users'[u])
               /\ get_position(users'[u]).collateral =
                    get_position(users[u]).collateral + margin
               /\ users'[u].collateral = users[u].collateral - margin]_vars

\* ================================================= matching engine claims
\* C11: cancelling an order through the matching engine succeeds for a
\* resting order cancelled by its owner, and cancelling an order that was
\* cancelled before fails with the invalid-state reply ("Cannot cancel order
\* with status"), not with "Order not found"; the second call changes no state.
C11_CancelTwice ==
    \A id \in OrderIds :
      LET done == engine_cancel_order(Engine, id, orders[id].user_id) IN
      /\ (id \in Resting(buy_levels) \cup Resting(sell_levels))
           => /\ done.reply.ok
              /\ done.engine.book.orders[id].status = "cancelled"
      /\ orders[id].status = "cancelled"
           => /\ ~done.reply.ok
              /\ done.reply.message = "Cannot cancel order with status"
              /\ done.engine = Engine

\* C12: a cancel request by a user who does not own the order, or for an
\* id that no order has, is rejected and leaves the engine (order book, orders,
\* levels, best prices, users, histories) as it was; a resting order can
\* still be cancelled by its owner afterwards.
C12_RejectedCancel ==
    \A id \in CancelIds, u \in Users :
      (id \notin OrderIds \/ orders[id].user_id # u) =>
        LET done == engine_cancel_order(Engine, id, u) IN
        /\ ~done.reply.ok
        /\ done.engine = Engine
        /\ (id \in Resting(buy_levels) \cup Resting(sell_levels))
             => engine_cancel_order(done.engine, id, orders[id].user_id).reply.ok

\* a cancel request was refused as unauthorized, and the order it named, or
\* another, is still resting
C12_Witness ==
    /\ last.op = "cancel_order"
    /\ ~last.ok
    /\ last.message = "Unauthorized to cancel this order"
    /\ Resting(buy_levels) \cup Resting(sell_levels) # {}

WellFormed(quantity, price, leverage) ==
    quantity > 0 /\ price > 0 /\ leverage >= 1 /\ leverage <= 10

\* C13: an order with non-positive quantity, non-positive price or
\* leverage outside [1, 10], handed to place_order in any state in which an
\* order can be placed, is rejected, and the engine after
\* the call (order book, order history, trade history, every user's collateral
\* and position) is the engine before it.
C13_ValidationRejects ==
    \A u \in OrderUsers, side \in Sides, shape \in OrderShapes :
      (Len(orders) < MaxPlaced /\ ~WellFormed(shape[1], shape[2], shape[3])) =>
        LET done == place_order(Engine, Order(u, side, shape[1], shape[2], shape[3])) IN
        /\ ~done.reply.ok
        /\ done.engine = Engine

\* an order was refused by validation while another order was resting
C13_Witness ==
    /\ last.op = "place_order"
    /\ ~last.ok
    /\ last.message \in {"Order quantity must be greater than 0",
                         "Order price must be greater than 0",
                         "Leverage must be between 1 and 10"}
    /\ Resting(buy_levels) \cup Resting(sell_levels) # {}

\* C14: in any state in which an order can be placed, a well-formed
\* order from a user that is not known, or whose margin quantity * price /
\* leverage exceeds the user's free collateral, is rejected by place_order
\* and the engine is left as it was; one whose margin
\* is at most the free collateral is accepted and enters the order history.
C14_MarginCheck ==
    \A u \in OrderUsers, side \in Sides, shape \in OrderShapes :
      (Len(orders) < MaxPlaced /\ WellFormed(shape[1], shape[2], shape[3])) =>
        LET done == place_order(Engine, Order(u, side, shape[1], shape[2], shape[3])) IN
        IF u \notin DOMAIN users
           \/ Dec(shape[1] * shape[2]) > users[u].collateral * shape[3]
        THEN /\ ~done.reply.ok
             /\ done.engine = Engine
        ELSE /\ done.reply.ok
             /\ done.engine.order_history = Append(order_history, Len(orders) + 1)
             /\ done.engine.book.orders[Len(orders) + 1].user_id = u

\* a well-formed order of a known user was refused for its margin
C14_Witness ==
    /\ last.op = "place_order"
    /\ ~last.ok
    /\ last.message = "Insufficient margin"

\* ===================================================== liquidation claims
\* equity < quantity * mark price * 5%, with equity = posted collateral +
\* unrealized PNL, in whole arithmetic: 20 * equity < quantity * mark price
BelowMaintenance(position, mark_price) ==
    20 * (position.collateral + position.unrealized_pnl)
      < position.quantity * mark_price

Underwater ==
    {u \in Users : /\ has_position(users[u])
                   /\ BelowMaintenance(get_position(users[u]), market_data.mark_price)}

\* C15: after a mark-price update, get_liquidatable_positions reports a
\* position if and only if its equity (posted collateral + unrealized PNL) is
\* below quantity * mark price * 5%; a position at or above it is not reported.
C15_LiquidatableReported ==
    last.op = "update_market_data" =>
      get_liquidatable_positions(users, market_data.mark_price) = Underwater

\* after a mark-price update one position is reported and another is not
C15_Witness ==
    /\ last.op = "update_market_data"
    /\ get_liquidatable_positions(users, market_data.mark_price) # {}
    /\ \E u \in Users :
         /\ has_position(users[u])
         /\ u \notin get_liquidatable_positions(users, market_data.mark_price)

\* what the claim says of liquidating the position of user u at the mark
\* price of market_data: the position is removed, the fee is 1% of quantity *
\* mark price, and the owner's free collateral grows by exactly
\* max(0, posted collateral + realized PNL - fee), which is never negative
LiquidatedAsClaimed(u) ==
    LET position == get_position(users[u])
        M == market_data.mark_price
        done == liquidate_position(users, u, pm_market_data, market_data,
                                   liquidation_history)
        record == done.liquidation_history[Len(done.liquidation_history)]
        pnl == IF position.side = "long"
               THEN (M - position.entry_price) * position.quantity
               ELSE (position.entry_price - M) * position.quantity
        credit == done.users[u].collateral - users[u].collateral
    IN  /\ ~has_position(done.users[u])
        /\ \E fee \in 0..(position.quantity * M) :
             /\ 100 * fee = position.quantity * M
             /\ record.actual_liquidation_fee = Float(fee)
             /\ credit = Max(0, position.collateral + pnl - fee)
        /\ credit >= 0

C17_CheckLiquidations ==
    pm_market_data =>
      LET done == check_liquidations(users, pm_market_data, market_data,
                                     liquidation_history)
          n == Len(liquidation_history)
          added == SubSeq(done.liquidation_history, n + 1, Len(done.liquidation_history))
      IN  /\ \A u \in Underwater : ~has_position(done.users[u])
          /\ \A u \in Users \ Underwater : done.users[u] = users[u]
          /\ Len(added) = Cardinality(Underwater)
          /\ {added[i].user_id : i \in 1..Len(added)} = Underwater
          /\ SubSeq(done.liquidation_history, 1, n) = liquidation_history
          /\ get_liquidatable_positions(done.users, market_data.mark_price) = {}

\* a scan has just liquidated one user's position and left another user's
\* position open
C17_Witness ==
    /\ last.op = "check_liquidations"
    /\ pm_market_data
    /\ liquidation_history # <<>>
    /\ ~has_position(users[liquidation_history[Len(liquidation_history)].user_id])
    /\ \E u \in Users : has_position(users[u])

\* ========================================================= funding claims
Elapsed == current_time - last_funding_time[1]

FundingNow ==
    apply_funding(users, pm_market_data, market_data, funding_history,
                  last_funding_time, current_time)

Holders == {u \in Users : has_position(users[u])}

\* C18: apply_funding called less than 8 hours after the last successful
\* application replies "not due" and changes nothing: users' collateral,
\* positions' funding paid, the market data's funding rate, the funding history
\* and the last funding time are as before.
C18_NotDue ==
    (last_funding_time # None /\ Elapsed < 8) =>
      /\ ~FundingNow.applied
      /\ FundingNow.message = "Funding not due yet"
      /\ FundingNow.users = users
      /\ FundingNow.market_data = market_data
      /\ FundingNow.funding_history = funding_history
      /\ FundingNow.last_funding_time = last_funding_time

\* apply_funding has just replied "not due" although positions are open and
\* the mark price is off the index price
C18_Witness ==
    /\ last.op = "apply_funding"
    /\ ~last.ok
    /\ Holders # {}
    /\ pm_market_data
    /\ market_data.mark_price # market_data.index_price

\* the payment the claim names for a position at the rate r
ClaimedPayment(position, r) ==
    IF position.side = "long"
    THEN DecMul(position.quantity * market_data.mark_price, r)
    ELSE DecMul(position.quantity * market_data.mark_price, -r)

C20_FundingSymmetry ==
    \A u \in Holders, v \in Holders :
      LET long == get_position(users[u])
          short == get_position(users[v])
          md == [market_data EXCEPT !.funding_rate = calculate_funding_rate(market_data)]
          paid_long == _calculate_funding_payment(long, md)
          paid_short == _calculate_funding_payment(short, md)
      IN  ( /\ long.side = "long"
            /\ short.side = "short"
            /\ long.quantity = short.quantity
            /\ md.funding_rate # 0 )
          => /\ paid_long + paid_short = 0
             /\ paid_long # 0
             /\ md.funding_rate > 0 => (paid_long > 0 /\ paid_short < 0)
             /\ md.funding_rate < 0 => (paid_long < 0 /\ paid_short > 0)

\* funding has just been applied at a positive rate to a LONG and a SHORT
\* position of equal quantity: the event lists a payment for both
C20_Witness ==
    /\ last.op = "apply_funding"
    /\ last.ok
    /\ market_data.funding_rate > 0
    /\ funding_history # <<>>
    /\ \E u \in Holders, v \in Holders :
         /\ get_position(users[u]).side = "long"
         /\ get_position(users[v]).side = "short"
         /\ get_position(users[u]).quantity = get_position(users[v]).quantity
         /\ {u, v} \subseteq DOMAIN funding_history[Len(funding_history)].funding_payments

\* C21: the funding rate calculated from a mark and an index price is
\* (mark - index) / index / 8 (to within the last Decimal digit kept) clamped
\* to [-1%, +1%]: never below -0.01 or above +0.01, 0 when mark equals index,
\* and 0 when the index price is 0.
C21_FundingRate ==
    LET r == calculate_funding_rate(market_data)
        mark == market_data.mark_price
        index == market_data.index_price
    IN  /\ -Scale <= 100 * r /\ 100 * r <= Scale
        /\ mark = index => r = 0
        /\ index = 0 => r = 0
        /\ index > 0 =>
             /\ 100 * r < Scale => (r + 1) * 8 * index > (mark - index) * Scale
             /\ 100 * r > -Scale => (r - 1) * 8 * index < (mark - index) * Scale

\* funding was applied at a rate that is neither 0 nor at the clamp
C21_Witness ==
    /\ last.op = "apply_funding"
    /\ last.ok
    /\ market_data.funding_rate # 0
    /\ 100 * market_data.funding_rate < Scale
    /\ 100 * market_data.funding_rate > -Scale
    /\ market_data.funding_rate = calculate_funding_rate(market_data)

\* ====================================================== unrealized PNL claim
\* the unrealized PNL the claim names, at a mark price
ClaimedUnrealized(position, mark_price) ==
    IF position.side = "long"
    THEN (mark_price - position.entry_price) * position.quantity
    ELSE (position.entry_price - mark_price) * position.quantity

\* C22: right after update_market_data every open position's unrealized
\* PNL is (mark - entry) * quantity for a LONG and (entry - mark) * quantity for
\* a SHORT, from the stored entry price and quantity and the new mark price;
\* nothing else of the position changes, users without a position are as they
\* were, and no user's collateral or realized PNL changes.
C22_UnrealizedPnl ==
    /\ \A mark \in Prices :
         LET md == [market_data EXCEPT !.mark_price = Dec(mark)]
             done == update_market_data(users, md)
         IN  \A u \in Users :
               IF has_position(users[u])
               THEN /\ has_position(done[u])
                    /\ get_position(done[u]) =
                         [get_position(users[u]) EXCEPT !.unrealized_pnl =
                            ClaimedUnrealized(get_position(users[u]), Dec(mark))]
                    /\ done[u].collateral = users[u].collateral
                    /\ done[u].total_realized_pnl = users[u].total_realized_pnl
               ELSE done[u] = users[u]
    /\ last.op = "update_market_data" =>
         \A u \in Holders :
           get_position(users[u]).unrealized_pnl =
             ClaimedUnrealized(get_position(users[u]), market_data.mark_price)

\* market data has just been updated and a LONG and a SHORT position carry
\* unrealized PNL of opposite signs
C22_Witness ==
    /\ last.op = "update_market_data"
    /\ \E u \in Holders, v \in Holders :
         /\ get_position(users[u]).side = "long"
         /\ get_position(users[v]).side = "short"
         /\ get_position(users[u]).unrealized_pnl > 0
         /\ get_position(users[v]).unrealized_pnl < 0

\* ================================================= position soundness claim
PositionsSound(us) ==
    \A u \in DOMAIN us :
      has_position(us[u]) => /\ get_position(us[u]).quantity > 0
                             /\ get_position(us[u]).collateral >= 0

\* market data with the given mark and index price and the funding rate
\* calculated from them
MarketAt(mark, index) ==
    LET md == MarketData(Dec(mark), Dec(index), 0)
    IN  [md EXCEPT !.funding_rate = calculate_funding_rate(md)]

\* C23: in every reachable state every open position has quantity > 0
\* and posted collateral >= 0, and so it is after a mark-price update, a funding
\* application at a rate above or below 0, or the liquidation of any position,
\* made from that state: a position whose quantity reaches 0 is removed.
C23_PositionsSound ==
    /\ PositionsSound(users)
    /\ \A mark \in Prices :
         LET md == MarketAt(mark, mark)
         IN  /\ PositionsSound(update_market_data(users, md))
             /\ \A u \in Holders :
                  PositionsSound(pm_liquidate_position(users, u, TRUE, md).users)
    /\ \A mark \in Prices, index \in Prices :
         mark # index =>
           PositionsSound(pm_apply_funding(users, TRUE, MarketAt(mark, index)).users)

\* a fill of a position's whole quantity has just removed the position
C23_Witness ==
    /\ last.op = "process_trade"
    /\ \E u \in Users :
         /\ ~has_position(users[u])
         /\ opened[u].fills >= 2
    /\ \E u \in Users : has_position(users[u])

\* ===================================================== best price claims
\* the prices of the levels of a side that hold an order
LevelPrices(levels) == {p \in DOMAIN levels : levels[p].orders # <<>>}

\* C24: best_bid is the highest price among the bid levels that hold
\* resting orders and best_ask the lowest among such ask levels, and each is
\* none exactly when its side holds no order.
C24_BestPrices ==
    /\ IF LevelPrices(buy_levels) = {} THEN best_bid = None
       ELSE /\ best_bid # None
            /\ best_bid[1] \in LevelPrices(buy_levels)
            /\ \A p \in LevelPrices(buy_levels) : p <= best_bid[1]
    /\ IF LevelPrices(sell_levels) = {} THEN best_ask = None
       ELSE /\ best_ask # None
            /\ best_ask[1] \in LevelPrices(sell_levels)
            /\ \A p \in LevelPrices(sell_levels) : p >= best_ask[1]

\* ===================================================== level volume claims
\* OrderBook.get_total_volume: the levels' aggregate quantities, added up
get_total_volume(b) ==
    SumOver([p \in DOMAIN b.buy_levels |-> b.buy_levels[p].total_quantity],
            DOMAIN b.buy_levels)
      + SumOver([p \in DOMAIN b.sell_levels |-> b.sell_levels[p].total_quantity],
                DOMAIN b.sell_levels)

\* the remaining quantities of the orders in a level's queue, added up
QueueRemaining(level) ==
    SumSeq([i \in 1..Len(level.orders) |-> remaining_quantity(orders[level.orders[i]])])

\* C25: each price level's aggregate quantity is the sum of the remaining
\* quantities of the orders in its queue, and the total volume is the sum of
\* the remaining quantities of all resting orders.
C25_LevelVolume ==
    /\ \A p \in DOMAIN buy_levels : buy_levels[p].total_quantity = QueueRemaining(buy_levels[p])
    /\ \A p \in DOMAIN sell_levels : sell_levels[p].total_quantity = QueueRemaining(sell_levels[p])
    /\ get_total_volume(Book) =
         SumOver([id \in OrderIds |-> remaining_quantity(orders[id])],
                 Resting(buy_levels) \cup Resting(sell_levels))

\* ===================================================== cancel frame claim
\* a resting order trades with a crossing order: a sell at the lowest price
\* trades when a buy rests, a buy at the highest price trades when a sell rests
StillMatchable(b) ==
    /\ LevelPrices(b.buy_levels) # {} =>
         \E p \in Prices :
           /\ \A x \in Prices : p <= x
           /\ Len(add_order(b, Order("user1", "sell", 1, p, 1)).trades) > Len(b.trades)
    /\ LevelPrices(b.sell_levels) # {} =>
         \E p \in Prices :
           /\ \A x \in Prices : p >= x
           /\ Len(add_order(b, Order("user1", "buy", 1, p, 1)).trades) > Len(b.trades)

\* what the claim says of cancelling the resting order id
CancelledAsClaimed(id) ==
    LET o == orders[id]
        done == cancel_order(Book, id)
        before == IF o.side = "buy" THEN buy_levels ELSE sell_levels
        after == IF o.side = "buy" THEN done.buy_levels ELSE done.sell_levels
        queue == RemoveFirst(before[o.price].orders, id)
    IN  /\ done.orders[id] = [o EXCEPT !.status = "cancelled"]
        /\ \A j \in OrderIds \ {id} : done.orders[j] = orders[j]
        /\ IF queue = <<>>
           THEN o.price \notin DOMAIN after
           ELSE /\ o.price \in DOMAIN after
                /\ after[o.price].orders = queue
                /\ after[o.price].total_quantity =
                     before[o.price].total_quantity - remaining_quantity(o)
        /\ DOMAIN after \subseteq DOMAIN before
        /\ \A p \in DOMAIN before \ {o.price} : p \in DOMAIN after /\ after[p] = before[p]
        /\ IF o.side = "buy" THEN done.sell_levels = sell_levels
                             ELSE done.buy_levels = buy_levels
        /\ StillMatchable(done)

\* C26: a successful cancel takes the order out of its level's queue,
\* lowers the level's aggregate quantity by the order's remaining quantity,
\* deletes the level if it became empty, marks the order cancelled and leaves
\* every other order and level as it was, and the orders still resting trade
\* with a later crossing order; cancelling a filled order changes nothing.
C26_CancelFrame ==
    \A id \in OrderIds :
      /\ cancel_ok(Book, id) => CancelledAsClaimed(id)
      /\ orders[id].status = "filled" => cancel_order(Book, id) = Book

\* ===================================================== order status claim
\* filled quantity within the order's quantity, and the status that goes
\* with it
StatusSound(o) ==
    /\ 0 <= o.filled_quantity
    /\ o.filled_quantity <= o.quantity
    /\ o.status = "filled" <=> o.filled_quantity = o.quantity
    /\ (0 < o.filled_quantity /\ o.filled_quantity < o.quantity)
         => o.status \in {"partially_filled", "cancelled"}
    /\ o.status = "partially_filled" => 0 < o.filled_quantity

OrderLifecycle ==
    /\ \A id \in 1..Len(orders') : orders'[id].quantity > 0 => StatusSound(orders'[id])
    /\ \A id \in OrderIds :
         /\ id <= Len(orders')
         /\ orders'[id].filled_quantity >= orders[id].filled_quantity
         /\ orders[id].status \in {"filled", "cancelled"} => orders'[id] = orders[id]

\* C27: every order of positive quantity has 0 <= filled quantity <=
\* quantity, and the filled quantity never decreases; its status is "filled"
\* exactly when filled = quantity and, when 0 < filled < quantity,
\* "partially_filled" unless it was cancelled; once "filled" or "cancelled" the
\* order never changes again.
C27_OrderLifecycle == [][OrderLifecycle]_vars

\* one order is filled and another was cancelled after a partial fill
C27_Witness ==
    /\ \E id \in OrderIds : orders[id].status = "filled"
    /\ \E id \in OrderIds :
         /\ orders[id].status = "cancelled"
         /\ 0 < orders[id].filled_quantity
         /\ orders[id].filled_quantity < orders[id].quantity

\* ======================================================== fill claims
\* the step is a process_trade call of a trade between two users, and user u,
\* one of them, had no open position
IsFirstFill(u) ==
    /\ applied'.n = applied.n + 1
    /\ applied'.buyer # applied'.seller
    /\ u \in {applied'.buyer, applied'.seller}
    /\ ~has_position(users[u])

\* C28: a trade applied for a user with no open position creates a
\* position, LONG for the buyer and SHORT for the seller, with the trade's
\* quantity and price as quantity and entry price, the order's leverage, and
\* posted collateral q * p / L, and takes exactly that amount from the user's
\* free collateral.
C28_FirstFill ==
    [][\A u \in Users :
         IsFirstFill(u) =>
           LET q == applied'.trade.quantity
               p == applied'.trade.price
               L == FillLeverage(u)
           IN  /\ has_position(users'[u])
               /\ get_position(users'[u]).side = FillSide(u)
               /\ get_position(users'[u]).quantity = q
               /\ get_position(users'[u]).entry_price = Dec(p)
               /\ get_position(users'[u]).leverage = L
               /\ L * get_position(users'[u]).collateral = Dec(q * p)
               /\ users'[u].collateral =
                    users[u].collateral - get_position(users'[u]).collateral
               /\ users'[u].total_realized_pnl = users[u].total_realized_pnl]_vars

\* a first trade has just opened a LONG and a SHORT position, both at a
\* leverage above 1
C28_Witness ==
    /\ last.op = "process_trade"
    /\ applied.n = 1
    /\ applied.buyer # applied.seller
    /\ applied.buy_leverage > 1
    /\ applied.sell_leverage > 1
    /\ has_position(users[applied.buyer])
    /\ has_position(users[applied.seller])
    /\ get_position(users[applied.buyer]).side = "long"
    /\ get_position(users[applied.seller]).side = "short"

IsIncrease(u) == IsFillStep(u) /\ FillSide(u) = get_position(users[u]).side

\* C29: a fill of quantity q at price p on the side of a position of
\* quantity Q and entry price E leaves quantity Q + q, entry price
\* (Q * E + q * p) / (Q + q) (rounded to the last Decimal digit kept), which lies
\* between min(E, p) and max(E, p), and leverage max(old leverage, order
\* leverage), which is never below the old leverage.
C29_Increase ==
    [][\A u \in Users :
         IsIncrease(u) =>
           LET old == get_position(users[u])
               q == applied'.trade.quantity
               p == Dec(applied'.trade.price)
               L == FillLeverage(u)
               new == get_position(users'[u])
               exact == old.quantity * old.entry_price + q * p
           IN  /\ has_position(users'[u])
               /\ new.side = old.side
               /\ new.quantity = old.quantity + q
               /\ 2 * (new.entry_price * new.quantity - exact) <= new.quantity
               /\ 2 * (exact - new.entry_price * new.quantity) <= new.quantity
               /\ new.entry_price >= (IF old.entry_price <= p THEN old.entry_price ELSE p)
               /\ new.entry_price <= (IF old.entry_price >= p THEN old.entry_price ELSE p)
               /\ new.leverage = (IF old.leverage >= L THEN old.leverage ELSE L)
               /\ new.leverage >= old.leverage]_vars

\* a position has been increased at another price and at a higher leverage:
\* its entry price is strictly between the two prices
C29_Witness ==
    /\ last.op = "process_trade"
    /\ applied.buyer # applied.seller
    /\ \E u \in {applied.buyer, applied.seller} :
         /\ has_position(users[u])
         /\ opened[u].fills >= 2
         /\ get_position(users[u]).quantity > applied.trade.quantity
         /\ get_position(users[u]).side = (IF applied.buyer = u THEN "long" ELSE "short")
         /\ get_position(users[u]).entry_price > Dec(1)
         /\ get_position(users[u]).entry_price < Dec(2)
         /\ get_position(users[u]).leverage = 2

IsPartialClose(u) ==
    /\ IsFillStep(u)
    /\ FillSide(u) # get_position(users[u]).side
    /\ applied'.trade.quantity < get_position(users[u]).quantity

\* C30: an opposite-side fill of quantity q < Q realizes PNL on q only,
\* moves the share q / Q of the posted collateral (rounded as Decimal rounds
\* q / Q and the product) from the position to the user's free collateral,
\* leaves quantity Q - q > 0, and leaves entry price, side and leverage as they
\* were.
C30_PartialClose ==
    [][\A u \in Users :
         IsPartialClose(u) =>
           LET old == get_position(users[u])
               q == applied'.trade.quantity
               new == get_position(users'[u])
               pnl == IF old.side = "long"
                      THEN (Dec(applied'.trade.price) - old.entry_price) * q
                      ELSE (old.entry_price - Dec(applied'.trade.price)) * q
               returned == users'[u].collateral - users[u].collateral
               off == returned * old.quantity - old.collateral * q
           IN  /\ has_position(users'[u])
               /\ users'[u].total_realized_pnl = users[u].total_realized_pnl + pnl
               /\ new.collateral = old.collateral - returned
               /\ returned >= 0
               /\ 2 * Scale * off <= old.quantity * (Scale + old.collateral)
               /\ -2 * Scale * off <= old.quantity * (Scale + old.collateral)
               /\ new.quantity = old.quantity - q
               /\ new.quantity > 0
               /\ new.entry_price = old.entry_price
               /\ new.side = old.side
               /\ new.leverage = old.leverage]_vars

\* a fill on the side opposite to a position has just left the position
\* open, and its user has realized PNL
C30_Witness ==
    /\ last.op = "process_trade"
    /\ applied.buyer # applied.seller
    /\ \E u \in {applied.buyer, applied.seller} :
         /\ has_position(users[u])
         /\ get_position(users[u]).side = (IF applied.buyer = u THEN "short" ELSE "long")
         /\ users[u].total_realized_pnl # 0

\* ================================================= frame and driver claims
\* the step is a liquidation scan or a single liquidation
IsLiquidationStep == last'.op \in {"check_liquidations", "liquidate_position"}

\* the owners of the positions the step liquidated: one record each
LiquidatedNow ==
    {liquidation_history'[i].user_id :
        i \in (Len(liquidation_history) + 1)..Len(liquidation_history')}

\* the ids of the resting orders of a user
RestingOf(u) ==
    {id \in Resting(buy_levels) \cup Resting(sell_levels) : orders[id].user_id = u}

LiquidationFrame ==
    IsLiquidationStep =>
      /\ \A u \in Users \ LiquidatedNow : users'[u] = users[u]
      /\ UNCHANGED <<bookVars, engineVars>>
      /\ \A u \in LiquidatedNow : RestingOf(u)' = RestingOf(u)

\* C31: a liquidation scan or a single liquidation changes the free
\* collateral, the realized PNL and the position of the liquidated users only:
\* every other user is as before, and so are the order book, its orders and
\* the engine's histories (the resting orders of a liquidated user stay).
C31_LiquidationFrame == [][LiquidationFrame]_vars

\* a scan has just liquidated the position of a user who has an order resting
\* in the book, while another user holds a position
C31_Witness ==
    /\ last.op = "check_liquidations"
    /\ liquidation_history # <<>>
    /\ LET liquidated == liquidation_history[Len(liquidation_history)].user_id
       IN  /\ ~has_position(users[liquidated])
           /\ RestingOf(liquidated) # {}
           /\ \E u \in Users \ {liquidated} : has_position(users[u])

\* the step is a call of FundingRateManager.apply_funding
IsApplyStep == last'.op = "apply_funding"

\* successive records of the funding history are an interval apart
HistorySpaced(history) ==
    \A i \in 1..(Len(history) - 1) :
        history[i + 1].timestamp - history[i].timestamp >= funding_interval_hours

FundingSpacing ==
    /\ HistorySpaced(funding_history)
    /\ IsApplyStep =>
         /\ last_funding_time = None => last'.ok
         /\ last'.ok =>
              /\ last_funding_time # None =>
                    current_time - last_funding_time[1] >= funding_interval_hours
              /\ last_funding_time' = Some(current_time)
              /\ Len(funding_history') = Len(funding_history) + 1
              /\ funding_history'[Len(funding_history')].timestamp = current_time
         /\ ~last'.ok => UNCHANGED <<funding_history, last_funding_time>>

\* C32: a call of apply_funding when no application has been made since the
\* manager was created or reset is an application; every other application
\* comes 8 simulated hours or more after the one before it, and so the records
\* of the funding history are 8 hours or more apart.
C32_FundingSpacing == [][FundingSpacing]_vars

\* two applications have been made since the last reset, and a call between
\* them or after them was refused
C32_Witness ==
    /\ Len(funding_history) >= 2
    /\ last = Reply("apply_funding", FALSE, "Funding not due yet")

\* ================================================ liquidation price claims
\* the position the last risk analysis was made of
Analyzed == get_position(users[UserList[1]])

\* the liquidation price the analysis reported
ReportedPrice == risk_analysis[1].liquidation_price[2]

\* C33: the analysis of a position of quantity 0 (the denominator of the
\* liquidation price is then 0) raises no division fault and reports no
\* ordinary number as the liquidation price, for a LONG and for a SHORT.
C33_NoLiquidationPrice ==
    (risk_analysis # None /\ Analyzed.quantity = 0) => ReportedPrice.infinite

\* C34: for a position of quantity > 0 the analysis reports the position
\* liquidatable at the mark price M if and only if M is below the liquidation
\* price P it reports for a LONG, above it for a SHORT; P is the quotient of
\* the closed form.
C34_LiquidationPrice ==
    (risk_analysis # None /\ Analyzed.quantity > 0) =>
      LET P == ReportedPrice.value
          M == market_data.mark_price
          q == Analyzed.quantity
      IN  /\ ~ReportedPrice.infinite
          /\ risk_analysis[1].is_liquidatable
                = (IF Analyzed.side = "long" THEN M < P ELSE M > P)
          /\ risk_analysis[1].is_liquidatable
                = BelowMaintenance([Analyzed EXCEPT !.unrealized_pnl =
                                       ClaimedUnrealized(Analyzed, M)], M)
          /\ IF Analyzed.side = "long"
             THEN Abs(P * 19 * q - 20 * (Analyzed.entry_price * q - Analyzed.collateral)) <= 10 * q
             ELSE Abs(P * 21 * q - 20 * (Analyzed.entry_price * q + Analyzed.collateral)) <= 11 * q

\* an analysis has found a LONG position liquidatable, its liquidation price
\* above the mark price
C34_Witness ==
    /\ risk_analysis # None
    /\ Analyzed.quantity > 0
    /\ Analyzed.side = "long"
    /\ risk_analysis[1].is_liquidatable
    /\ market_data.mark_price < ReportedPrice.value

\* ================================================ zero-quantity order claim
\* the step is an add_order call with an order of quantity 0
IsZeroOrderStep ==
    /\ Len(orders') = Len(orders) + 1
    /\ orders'[Len(orders')].quantity = 0

ZeroOrder ==
    IsZeroOrderStep =>
      LET id == Len(orders')
      IN  /\ trades' = trades
          /\ is_filled(orders'[id])
          /\ orders'[id].filled_quantity = 0
          /\ id \notin Resting(buy_levels') \cup Resting(sell_levels')
          /\ \A other \in OrderIds : orders'[other] = orders[other]
          /\ UNCHANGED <<buy_levels, sell_levels, buy_prices, sell_prices,
                         best_bid, best_ask>>

\* C35: add_order of an order of quantity 0 returns no trade, leaves the
\* order filled (nothing of it remains) and in no price level, and leaves every
\* other order, every level with its queue and aggregate, the price heaps and
\* the best bid and ask as they were.
C35_ZeroOrder == [][ZeroOrder]_vars

\* an order of quantity 0 has just been added at a price at which an order of
\* the other side rests, and orders rest on both sides
C35_Witness ==
    /\ last.op = "add_order"
    /\ orders # <<>>
    /\ LET order == orders[Len(orders)]
       IN  /\ order.quantity = 0
           /\ IF order.side = "buy"
              THEN order.price \in DOMAIN sell_levels
              ELSE order.price \in DOMAIN buy_levels
    /\ buy_levels # <<>>
    /\ sell_levels # <<>>

\* ======================================================= driver loop claim
\* the calls of one hour, in the order claimed
ClaimedCalls(hour) ==
    <<"update_price", "update_market_data", "check_liquidations">>
      \o (IF hour % 8 = 0 /\ hour > 0 THEN <<"apply_funding">> ELSE <<>>)

IsPrefix(s, t) == Len(s) <= Len(t) /\ s = SubSeq(t, 1, Len(s))

\* every open position carries the unrealized PNL of the current mark price
PnlFresh ==
    /\ pm_market_data
    /\ \A u \in Holders :
         get_position(users[u]).unrealized_pnl
           = ClaimedUnrealized(get_position(users[u]), market_data.mark_price)

C37_Solvent == \A u \in Users : users[u].collateral >= 0

\* ================================================== open interest claim
\* the sum of the quantities of the open positions of a side
OpenInterest(side) ==
    SumOver([u \in Users |->
                IF has_position(users[u]) /\ get_position(users[u]).side = side
                THEN get_position(users[u]).quantity ELSE 0],
            Users)

\* C38: after every trade applied by process_trade to its buyer and its
\* seller, the quantities of the LONG positions add up to the quantities of the
\* SHORT positions.
C38_OpenInterest == OpenInterest("long") = OpenInterest("short")

\* ================================================ book membership claim
\* the places (side, price, position in the queue) where an order number stands
QueuePlaces(id) ==
    {<<"buy", p, i>> : <<p, i>> \in
        {<<p, i>> \in (DOMAIN buy_levels) \X (1..MaxOrders) :
            i <= Len(buy_levels[p].orders) /\ buy_levels[p].orders[i] = id}}
    \cup
    {<<"sell", p, i>> : <<p, i>> \in
        {<<p, i>> \in (DOMAIN sell_levels) \X (1..MaxOrders) :
            i <= Len(sell_levels[p].orders) /\ sell_levels[p].orders[i] = id}}

\* submitted, something remaining, neither filled nor cancelled
Live(id) ==
    /\ id \in 1..Len(orders)
    /\ remaining_quantity(orders[id]) > 0
    /\ ~is_filled(orders[id])
    /\ orders[id].status \notin {"filled", "cancelled"}

NoEmptyLevel ==
    /\ \A p \in DOMAIN buy_levels : ~PriceLevel_is_empty(buy_levels[p])
    /\ \A p \in DOMAIN sell_levels : ~PriceLevel_is_empty(sell_levels[p])

\* C39: an order is in the queue of a price level exactly when it was
\* submitted, has remaining quantity above 0 and is neither filled nor
\* cancelled; it is there once, in the level of its own side and limit price;
\* and no level of the book has an empty queue.
C39_BookMembership ==
    /\ \A id \in 1..MaxOrders :
         /\ (QueuePlaces(id) # {}) <=> Live(id)
         /\ Cardinality(QueuePlaces(id)) <= 1
         /\ \A place \in QueuePlaces(id) :
              /\ place[1] = orders[id].side
              /\ place[2] = orders[id].price
    /\ NoEmptyLevel

\* a partially filled order still queued, next to a filled, a cancelled and a
\* zero-quantity order that are in no queue
C39_Witness ==
    /\ \E id \in 1..Len(orders) :
         /\ is_partially_filled(orders[id])
         /\ QueuePlaces(id) # {}
    /\ \E id \in 1..Len(orders) :
         orders[id].status = "filled" /\ QueuePlaces(id) = {}
    /\ \E id \in 1..Len(orders) :
         \/ orders[id].status = "cancelled" /\ QueuePlaces(id) = {}
         \/ orders[id].quantity = 0 /\ QueuePlaces(id) = {}

\* ================================================ zero-rate funding claim
\* apply_funding called now with the market data md
FundingWith(md) ==
    apply_funding(users, pm_market_data, md, funding_history,
                  last_funding_time, current_time)

\* a due application at the computed rate 0 charges nothing and lists no
\* payment, and still records an event and moves the last funding time
ZeroRateFunding(md) ==
    LET done == FundingWith(md) IN
    (should_apply_funding(last_funding_time, current_time)
     /\ calculate_funding_rate(md) = 0) =>
      /\ done.applied
      /\ done.users = users
      /\ DOMAIN done.funding_payments = {}
      /\ Len(done.funding_history) = Len(funding_history) + 1
      /\ SubSeq(done.funding_history, 1, Len(funding_history)) = funding_history
      /\ LET funding_record == done.funding_history[Len(done.funding_history)]
         IN  /\ funding_record.timestamp = current_time
             /\ funding_record.funding_rate = Float(0)
             /\ DOMAIN funding_record.funding_payments = {}
             /\ funding_record.total_funding_paid = Float(0)
      /\ done.last_funding_time = Some(current_time)
      /\ \A later \in current_time..(current_time + 2 * funding_interval_hours) :
           LET again == apply_funding(done.users, pm_market_data, done.market_data,
                                      done.funding_history, done.last_funding_time,
                                      later)
           IN  again.applied <=> later - current_time >= funding_interval_hours

\* C40: when an application of funding is due and the computed rate is 0,
\* because the mark price equals the index price or the index price is 0, no
\* user's collateral and no position's funding paid changes and the payments
\* are empty, yet the application succeeds: one funding event is recorded and
\* the last funding time becomes the current time, so that the next
\* application succeeds only 8 hours later.
C40_ZeroRateFunding ==
    /\ market_data.mark_price = market_data.index_price => ZeroRateFunding(market_data)
    /\ ZeroRateFunding([market_data EXCEPT !.index_price = 0])

\* funding was just applied at the rate 0 while positions are open and the
\* position manager has the market data
C40_Witness ==
    /\ last.op = "apply_funding"
    /\ last.ok
    /\ Holders # {}
    /\ pm_market_data
    /\ market_data.mark_price = market_data.index_price
    /\ market_data.funding_rate = 0
    /\ last_funding_time = Some(current_time)
    /\ funding_history # <<>>
    /\ DOMAIN funding_history[Len(funding_history)].funding_payments = {}
    /\ funding_history[Len(funding_history)].timestamp = current_time
====
